---- MODULE Spec2Model ----
(***************************************************************************)
(* libsm64-blender: the session glue between the host scene and the native *)
(* libsm64 library.                                                        *)
(*                                                                         *)
(* Two revisions of the add-on live in the repository:                     *)
(*   - the handler-based revision (mario.py, __init__.py, input_reader.py):*)
(*     insert_mario / stop_tick_mario / tick_mario, ticked from the        *)
(*     frame_change_pre handler list;                                      *)
(*   - the timer-based revision (interop.py, mario_op.py, insert_op.py):   *)
(*     SM64Mario.__init__ / SM64Mario.tick, ticked from an app timer.      *)
(* Spec is the handler-based revision, SpecTimer the timer-based one and   *)
(* SpecExtract the scene-to-surface-array extractor on its own.            *)
(*                                                                         *)
(* Host-space coordinates are floats in the code.  They are modelled as    *)
(* exact multiples of 1/HostDen (binary fractions, which floats hold       *)
(* exactly), kept as integer numerators.                                   *)
(***************************************************************************)
EXTENDS Integers, Sequences, FiniteSets, TLC

VARIABLES
    \* ---- mario.py module globals (handler-based revision)
    sm64,               \* the CDLL handle: "None" or "lib"
    sm64_mario_id,      \* id returned by sm64_mario_create, -1 at start
    SM64_SCALE_FACTOR,  \* set from the scale argument of insert_mario
    origin_offset,      \* host-space origin, numerators over HostDen
    original_fps,
    tick_count,
    mario_inputs,       \* SM64MarioInputs (the fields the session touches)
    \* ---- input_reader.py
    thread_running,
    \* ---- host scene (bpy)
    handlers,           \* number of tick_mario entries in frame_change_pre
    mario_obj,          \* 'LibSM64 Mario' in bpy.data.objects
    fps,                \* bpy.context.scene.render.fps
    surfaces,           \* what get_all_surfaces() returns for the scene
    \* ---- native library (process-wide state behind the C ABI)
    native,             \* [init, surfaces, marios]
    \* ---- timer-based revision (interop.py, mario_op.py)
    mario,              \* mario_op.mario: [exists, mario_id]; ~exists is None
    timers,             \* number of registered tick_mario timers
    workers,            \* input worker threads started
    mesh_exists,        \* 'mario' in bpy.data.meshes
    \* ---- extractor output (get_surface_array_from_scene)
    surface_array,
    surface_array_len,
    \* ---- observation of the last operation
    calls,              \* native calls made by the last operation, in order
    last_decode,        \* geometry decode used by the last tick
    op,                 \* the last operation and how it ended
    \* ---- the input reader and its worker threads
    platform,           \* platform.system(): which backend mario.py imports
    events,             \* input_reader.events: the raw event queue
    threads,            \* _input_reader_thread threads: where each one stands
    keyboard_control,   \* config['keyboard_control']
    input_value,        \* the key map of __init__.py
    modal,              \* the keyboard operator runs as a modal handler
    g_queue,            \* input_reader_win.g_queue: [bound, items]
    g_running,
    g_shouldStop,
    win_thread,         \* the enqueue_output thread: the line it stands at
    proc,               \* the controller.exe child process
    sampler,            \* the main thread inside sample_input_reader
    produced,           \* a worker has queued data since the last sample
    \* ---- Mario's geometry
    mario_geo,          \* mario.mario_geo: the buffers the native tick fills
    mesh,               \* bpy.data.meshes['libsm64_mario_mesh']
    \* ---- the host scene get_all_surfaces walks
    scene,              \* scene.collection.all_objects
    \* ---- the 3D view
    look_dir            \* the view direction the last tick computed (line 186)

vars == <<sm64, sm64_mario_id, SM64_SCALE_FACTOR, origin_offset, original_fps,
          tick_count, mario_inputs, thread_running, handlers, mario_obj, fps,
          surfaces, native, mario, timers, workers, mesh_exists,
          surface_array, surface_array_len, calls, last_decode, op,
          platform, events, threads, keyboard_control, input_value, modal,
          g_queue, g_running, g_shouldStop, win_thread, proc, sampler, produced,
          mario_geo, mesh, scene, look_dir>>

sessionVars == <<sm64, sm64_mario_id, original_fps, tick_count, mario_inputs,
                 thread_running, handlers, mario_obj, fps, native, last_decode>>
timerVars == <<mario, timers, workers, mesh_exists>>
extractVars == <<surface_array, surface_array_len>>
readerVars == <<platform, events, threads, keyboard_control, input_value, modal,
                g_queue, g_running, g_shouldStop, win_thread, proc, sampler,
                produced>>
meshVars == <<mario_geo, mesh>>

(***************************************************************************)
(* Bounds of the model                                                     *)
(***************************************************************************)
MaxTris == 3        \* most triangles in a scene
MaxTicks == 3       \* most ticks counted after one insert
MaxLongTicks == 17  \* most ticks counted after one insert in a long session
MaxWorkers == 2     \* most input worker threads started (timer revision)
HostDen == 4        \* host coordinates are multiples of 1/HostDen
MaxThreads == 2     \* most evdev reader threads alive at once
MaxQueue == 2       \* most items waiting in an input queue
MaxSlots == 2       \* most material slots of a mesh
GeoTris == 2        \* triangles the model's mesh and geometry buffers hold

(***************************************************************************)
(* Program constants                                                       *)
(***************************************************************************)
Int16Bound == 32767         \* clamp_bounds: bounds = 0x7FFF
DefaultScale == 50          \* SM64_SCALE_FACTOR = 50
PanelScale == 100           \* mario_scale default
TickFps == 30               \* render.fps = 30
FullDecodeTicks == 15       \* tick_count < 15
SpawnYOffset == 100         \* interop.py: int(S * start_pos.z) + 100
SURFACE_DEFAULT == 0
TERRAIN_GRASS == 0
TERRAIN_STONE == 1
SURFACE_BURNING == 1
AxisRange == 32768      \* _read_axis: val /= 32768.0
AxisMax == AxisRange - 1 \* largest raw value of a 16-bit axis
AxisDen == 4 * AxisRange
CAM_TURN_EIGTH == 1     \* 1.0 / 8.0, in eighths
ZOOM_INCR == 4          \* 0.5, in eighths

Scales == {DefaultScale, PanelScale}
UserFpsValues == {24}       \* the scene's frame rate before any insert

\* int(): truncation toward zero of the rational num/den, den > 0
Trunc(num, den) == IF num >= 0 THEN num \div den ELSE -((-num) \div den)

\* a value stored into a ctypes c_int16 field or argument wraps silently
WrapInt16(v) == ((v + 32768) % 65536) - 32768

\* a c_int32 result read through restype = c_uint32: the same 32 bits as an
\* unsigned number, held as its two 16-bit halves (value = hi * 65536 + lo)
AsUint32(v) == [hi |-> (v \div 65536) % 65536, lo |-> v % 65536]

\* mario_op.mario = None
NoMario == [exists |-> FALSE, mario_id |-> AsUint32(0)]

(***************************************************************************)
(* Scene input: representative vertices and triangles                      *)
(***************************************************************************)
Big == 700 * HostDen    \* 700 host units: 35000 engine units at scale 50

VIn0 == <<0, 0, 0>>
VIn1 == <<HostDen, 0, 0>>
VIn2 == <<0, 2 * HostDen, 1>>
VIn3 == <<-3, HostDen, -2 * HostDen>>
VOneOut == <<Big, 0, HostDen>>
VTwoOut == <<0, -Big, -Big>>
VAllOut == <<Big, -Big, Big>>
VNegAllOut == <<-Big, Big, -Big>>

Tri(a, b, c, st, tr) ==
    [v0x |-> a[1], v0y |-> a[2], v0z |-> a[3],
     v1x |-> b[1], v1y |-> b[2], v1z |-> b[3],
     v2x |-> c[1], v2y |-> c[2], v2z |-> c[3],
     surftype |-> st, terrain |-> tr]

TriIn == Tri(VIn0, VIn1, VIn2, SURFACE_DEFAULT, TERRAIN_GRASS)
TriIn2 == Tri(VIn3, VIn2, VIn1, SURFACE_BURNING, TERRAIN_STONE)
TriOneAxisOut == Tri(VOneOut, VIn1, VIn2, SURFACE_DEFAULT, TERRAIN_GRASS)
TriTwoAxesOut == Tri(VIn0, VTwoOut, VIn3, SURFACE_DEFAULT, TERRAIN_STONE)
TriAllAxesOut == Tri(VIn0, VIn1, VAllOut, SURFACE_BURNING, TERRAIN_GRASS)
TriNegAllAxesOut == Tri(VNegAllOut, VIn2, VIn3, SURFACE_DEFAULT, TERRAIN_GRASS)

TriSet == { TriIn, TriIn2, TriOneAxisOut, TriTwoAxesOut, TriAllAxesOut, TriNegAllAxesOut }

RECURSIVE SeqsUpTo(_, _)
SeqsUpTo(S, n) ==
    IF n = 0 THEN { <<>> }
    ELSE LET shorter == SeqsUpTo(S, n - 1)
         IN shorter \cup { Append(s, x) : s \in { t \in shorter : Len(t) = n - 1 }, x \in S }

Scenes == SeqsUpTo(TriSet, MaxTris)
\* the scenes the session specifications start from
SessionScenes == { <<>>, <<TriIn>>, <<TriAllAxesOut, TriOneAxisOut, TriIn2>> }
Origins == { <<0, 0, 0>>, <<HostDen, -2 * HostDen, 3>> }

(***************************************************************************)
(* mario.py: clamp_bounds and get_surface_array_from_scene                 *)
(***************************************************************************)
\* clamp_bounds(val), val = num/HostDen: returns <<value, in range>>
clamp_bounds(num) ==
    LET val == Trunc(num, HostDen)
    IN IF val < -Int16Bound THEN <<-Int16Bound, FALSE>>
       ELSE IF val > Int16Bound THEN <<Int16Bound, FALSE>>
       ELSE <<val, TRUE>>

\* the nine clamp_bounds calls of one loop iteration (lines 228-236), as the
\* record of the nine <<value, in range>> pairs
ClampTriangle(s, scale, origin) ==
    [v0x |-> clamp_bounds(scale * ( s.v0x - origin[1])),
     v0y |-> clamp_bounds(scale * ( s.v0z - origin[3])),
     v0z |-> clamp_bounds(scale * (-s.v0y + origin[2])),
     v1x |-> clamp_bounds(scale * ( s.v1x - origin[1])),
     v1y |-> clamp_bounds(scale * ( s.v1z - origin[3])),
     v1z |-> clamp_bounds(scale * (-s.v1y + origin[2])),
     v2x |-> clamp_bounds(scale * ( s.v2x - origin[1])),
     v2y |-> clamp_bounds(scale * ( s.v2z - origin[3])),
     v2z |-> clamp_bounds(scale * (-s.v2y + origin[2]))]

\* the three "continue" tests of lines 238-243
SkipTriangle(c) ==
    \/ (~c.v0x[2] /\ ~c.v0y[2] /\ ~c.v0z[2])
    \/ (~c.v1x[2] /\ ~c.v1y[2] /\ ~c.v1z[2])
    \/ (~c.v2x[2] /\ ~c.v2y[2] /\ ~c.v2z[2])

\* the SM64Surface written at lines 245-256
MakeSurface(s, c) ==
    [surftype |-> s.surftype, force |-> 0, terrain |-> s.terrain,
     v0x |-> c.v0x[1], v0y |-> c.v0y[1], v0z |-> c.v0z[1],
     v1x |-> c.v1x[1], v1y |-> c.v1y[1], v1z |-> c.v1z[1],
     v2x |-> c.v2x[1], v2y |-> c.v2y[1], v2z |-> c.v2z[1]]

\* a zero-initialised SM64Surface: (SM64Surface * n)()
ZeroSurface ==
    [surftype |-> 0, force |-> 0, terrain |-> 0,
     v0x |-> 0, v0y |-> 0, v0z |-> 0,
     v1x |-> 0, v1y |-> 0, v1z |-> 0,
     v2x |-> 0, v2y |-> 0, v2z |-> 0]

\* the index written by an iteration that keeps its triangle, and the value
\* of j after it (0-based j of the code; arrays here are 1-based)
WriteIndexAtI(i, j) == i
WriteIndex(i, j) == j + 1
NextJ(j) == j + 1

\* the for loop of lines 227-257, from iteration i (1-based) with j kept so far
RECURSIVE SurfaceLoop(_, _, _, _, _, _)
SurfaceLoop(surfs, scale, origin, i, j, arr) ==
    IF i > Len(surfs) THEN <<arr, j>>
    ELSE LET c == ClampTriangle(surfs[i], scale, origin)
         IN IF SkipTriangle(c)
            THEN SurfaceLoop(surfs, scale, origin, i + 1, j, arr)
            ELSE SurfaceLoop(surfs, scale, origin, i + 1, NextJ(j),
                             [arr EXCEPT ![WriteIndex(i, j)] = MakeSurface(surfs[i], c)])

\* get_surface_array_from_scene(): <<surface_array, j>>
get_surface_array_from_scene(surfs, scale, origin) ==
    SurfaceLoop(surfs, scale, origin, 1, 0, [k \in 1..Len(surfs) |-> ZeroSurface])

(***************************************************************************)
(* The native library behind the C ABI.  Its global state is process-wide: *)
(* LoadLibrary of an already loaded library returns the same library, and  *)
(* dropping the CDLL handle does not unload it.                            *)
(***************************************************************************)
NativeAtStart == [init |-> FALSE, surfaces |-> FALSE, marios |-> {}]
NativeInit(n) == [n EXCEPT !.init = TRUE]
NativeSurfacesLoad(n) == [n EXCEPT !.surfaces = TRUE]
NativeCreate(n, ret) == IF ret >= 0 THEN [n EXCEPT !.marios = @ \cup {ret}] ELSE n
NativeTerminate(n) == [init |-> FALSE, surfaces |-> FALSE, marios |-> {}]

\* what sm64_mario_create may return: negative = no ground under the point
CreateResults == {-1, 0, 1}
\* the ROM file at rom_path
RomStates == {"missing", "empty", "valid"}

\* one entry of the observation `calls`: the function, its arguments and
\* result, and the native state it was called in
CallEntry(fn, n, args, ret) ==
    [fn |-> fn, init |-> n.init, surfaces |-> n.surfaces, marios |-> n.marios,
     args |-> args, ret |-> ret]

(***************************************************************************)
(* Handler-based revision: mario.py                                        *)
(* The module globals an operation works on are gathered in a record g, so *)
(* that the statements of a function compose in source order.              *)
(***************************************************************************)
Globals ==
    [sm64 |-> sm64, sm64_mario_id |-> sm64_mario_id, original_fps |-> original_fps,
     tick_count |-> tick_count, thread_running |-> thread_running,
     handlers |-> handlers, mario_obj |-> mario_obj, fps |-> fps,
     mesh_exists |-> mesh_exists, native |-> native,
     mario_inputs |-> mario_inputs, last_decode |-> "none",
     mario |-> mario, timers |-> timers, workers |-> workers,
     calls |-> <<>>, err |-> "None", raised |-> FALSE]

\* ct.cdll.LoadLibrary(dll_path): line 115
LoadLibrary(g) ==
    [g EXCEPT !.sm64 = "lib",
              !.calls = Append(@, CallEntry("LoadLibrary", g.native, <<>>, 0))]

\* sm64.sm64_global_init(rom, texture_buff, None): line 127
sm64_global_init(g, rom) ==
    [g EXCEPT !.native = NativeInit(@),
              !.calls = Append(@, CallEntry("sm64_global_init", g.native, <<rom>>, 0))]

\* sm64.sm64_static_surfaces_load(surface_array, surface_array_len): line 132
sm64_static_surfaces_load(g, len) ==
    [g EXCEPT !.native = NativeSurfacesLoad(@),
              !.calls = Append(@, CallEntry("sm64_static_surfaces_load", g.native, <<len>>, 0))]

\* sm64_mario_id = sm64.sm64_mario_create(0, 0, 0), restype c_int32: line 134
sm64_mario_create(g, args, ret) ==
    [g EXCEPT !.native = NativeCreate(@, ret),
              !.sm64_mario_id = ret,
              !.calls = Append(@, CallEntry("sm64_mario_create", g.native, args, ret))]

\* sm64.sm64_global_terminate(): lines 137 and 166
sm64_global_terminate(g) ==
    [g EXCEPT !.native = NativeTerminate(@),
              !.calls = Append(@, CallEntry("sm64_global_terminate", g.native, <<>>, 0))]

\* input_reader.py
stop_input_reader(g) == [g EXCEPT !.thread_running = FALSE]
start_input_reader(g) == [g EXCEPT !.thread_running = TRUE]

\* stop_tick_mario(): lines 155-168
stop_tick_mario_keeps_handlers(g) ==
    LET g1 == [g EXCEPT !.fps = g.original_fps, !.sm64_mario_id = -1]
        g2 == sm64_global_terminate(g1)
    IN stop_input_reader([g2 EXCEPT !.sm64 = "None"])
stop_tick_mario(g) ==
    LET g1 == [g EXCEPT !.handlers = 0, !.fps = g.original_fps, !.sm64_mario_id = -1]
        g2 == sm64_global_terminate(g1)
    IN stop_input_reader([g2 EXCEPT !.sm64 = "None"])

\* if sm64_mario_id < 0: line 136
SpawnRejected(id) == id < 0

\* the rejected-spawn branch: lines 137-139
insert_spawn_failed_keeps_handle(g) ==
    [g EXCEPT !.err = "There is no ground under the 3D cursor where mario will spawn"]
insert_spawn_failed(g) ==
    LET g1 == sm64_global_terminate(g)
    IN [g1 EXCEPT !.sm64 = "None",
                  !.err = "There is no ground under the 3D cursor where mario will spawn"]

\* the rest of a successful insert: lines 141-153
insert_spawned(g) ==
    LET g1 == start_input_reader([g EXCEPT !.mario_obj = TRUE])
    IN [g1 EXCEPT !.original_fps = g.fps, !.fps = TickFps,
                  !.handlers = @ + 1, !.tick_count = 0]

\* insert_mario(rom_path, scale, camera_follow): lines 81-153.  rom is the state
\* of the file at rom_path, create_ret what the native create returns
insert_mario(rom, create_ret, scale, cursor) ==
    LET g1 == [Globals EXCEPT !.mario_obj = FALSE]                  \* 103-105
        g2 == stop_input_reader(g1)                                 \* 107
        g3 == IF g2.sm64 # "None" THEN stop_tick_mario(g2) ELSE g2  \* 109-110
        g4 == LoadLibrary(g3)                                       \* 115
    IN IF rom = "missing"
       THEN [g4 EXCEPT !.raised = TRUE]                             \* open() raises
       ELSE LET g5 == [sm64_global_init(g4, rom) EXCEPT !.mesh_exists = TRUE]
                sa == get_surface_array_from_scene(surfaces, scale, cursor)
                g6 == sm64_static_surfaces_load(g5, sa[2])
                g7 == sm64_mario_create(g6, <<0, 0, 0>>, create_ret)
            IN IF SpawnRejected(g7.sm64_mario_id)
               THEN insert_spawn_failed(g7)
               ELSE insert_spawned(g7)

\* InsertMario_OT_Operator.execute: __init__.py lines 84-89
OperatorReport(g) ==
    IF g.raised THEN "exception"
    ELSE IF g.err # "None" THEN "ERROR" ELSE "none"

\* the globals a finished operation leaves behind
Commit(g) ==
    /\ sm64' = g.sm64
    /\ sm64_mario_id' = g.sm64_mario_id
    /\ original_fps' = g.original_fps
    /\ tick_count' = g.tick_count
    /\ thread_running' = g.thread_running
    /\ handlers' = g.handlers
    /\ mario_obj' = g.mario_obj
    /\ fps' = g.fps
    /\ mesh_exists' = g.mesh_exists
    /\ native' = g.native
    /\ mario_inputs' = g.mario_inputs
    /\ last_decode' = g.last_decode
    /\ mario' = g.mario
    /\ timers' = g.timers
    /\ workers' = g.workers
    /\ calls' = g.calls

\* the operator run with a ROM state, a create result, a scale and a cursor
\* position out of the given sets
InsertBody(roms, create_rets, scales, cursors) ==
    \E rom \in roms, create_ret \in create_rets, scale \in scales, cursor \in cursors :
        \E g \in { insert_mario(rom, create_ret, scale, cursor) } :
           /\ Commit(g)
           /\ SM64_SCALE_FACTOR' = scale                            \* 84
           /\ origin_offset' = cursor                               \* 99-101
           /\ op' = [name |-> "insert", rom |-> rom, err |-> g.err,
                     raised |-> g.raised, report |-> OperatorReport(g)]
           /\ UNCHANGED <<surfaces, surface_array, surface_array_len>>
           /\ UNCHANGED meshVars                        \* the mesh is made once: 351
           /\ UNCHANGED <<scene, look_dir>>

\* the session seen without its worker threads
InsertWith(roms, create_rets, scales, cursors) ==
    /\ InsertBody(roms, create_rets, scales, cursors)
    /\ UNCHANGED readerVars

Insert == InsertWith(RomStates, CreateResults, Scales, Origins)

(***************************************************************************)
(* tick_mario: mario.py lines 170-208                                      *)
(***************************************************************************)
NeutralInputs ==
    [camLookX |-> 0, camLookZ |-> 0, stickX |-> 0, stickY |-> 0,
     buttonA |-> FALSE, buttonB |-> FALSE, buttonZ |-> FALSE]

\* what the input source delivers to one sample: nothing new since the last
\* sample (new = FALSE) or the stick and button values of the newest events
Samples ==
    { [new |-> FALSE, camLookX |-> 0, camLookZ |-> 0, stickX |-> 0, stickY |-> 0,
       buttonA |-> FALSE, buttonB |-> FALSE, buttonZ |-> FALSE],
      [new |-> TRUE, camLookX |-> 0, camLookZ |-> 0, stickX |-> 0, stickY |-> 0,
       buttonA |-> FALSE, buttonB |-> FALSE, buttonZ |-> FALSE],
      [new |-> TRUE, camLookX |-> 0, camLookZ |-> 0, stickX |-> AxisDen, stickY |-> -AxisDen,
       buttonA |-> TRUE, buttonB |-> FALSE, buttonZ |-> TRUE] }

\* the view direction r3d.view_rotation @ (0, 0, -1), as <<x, y>> in eighths
Forward == <<0, 8>>
LookDirs == { Forward, <<8, 0>> }

\* sample_input_reader(mario_inputs): input_reader.py lines 32-84, with the
\* drained events summarised by `sample`
sample_input_reader(inputs, sample) ==
    LET z == [inputs EXCEPT !.camLookX = 0, !.camLookZ = 0]             \* 34-35
    IN IF ~sample.new THEN z
       ELSE [z EXCEPT !.camLookX = sample.camLookX,                    \* 73
                      !.camLookZ = sample.camLookZ,                    \* 82
                      !.stickX = sample.stickX, !.stickY = sample.stickY,
                      !.buttonA = sample.buttonA, !.buttonB = sample.buttonB,
                      !.buttonZ = sample.buttonZ]

\* sm64.sm64_mario_tick(sm64_mario_id, inputs, state, geo): line 190
sm64_mario_tick(g) ==
    [g EXCEPT !.calls = Append(@, CallEntry("sm64_mario_tick", g.native,
                                            <<g.sm64, g.sm64_mario_id, g.mario_inputs>>, 0))]

\* ---- the geometry buffers and the mesh they are decoded into: the model
\* holds GeoTris triangles where the code holds SM64_GEO_MAX_TRIANGLES
VertIdx == 0..(3 * GeoTris - 1)
FloatIdx(per_triangle) == 0..(per_triangle * GeoTris - 1)

\* SM64MarioGeometryBuffers(): lines 49-67
EmptyGeo ==
    [position_data |-> [j \in FloatIdx(9) |-> 0],
     color_data |-> [j \in FloatIdx(9) |-> 0],
     uv_data |-> [j \in FloatIdx(6) |-> 0],
     numTrianglesUsed |-> 0]

\* the mesh initialize_all_data builds, lines 350-364: every vertex at the
\* origin, uv layer "uv0" and vertex colours as the host creates them.  co is
\* <<x, y, z>> in numerators over HostDen * SM64_SCALE_FACTOR
NewMesh ==
    [co |-> [v \in VertIdx |-> <<0, 0, 0>>],
     uv |-> [v \in VertIdx |-> <<0, 0>>],
     color |-> [v \in VertIdx |-> <<1, 1, 1, 1>>]]

\* what one sm64_mario_tick leaves in the buffers: `used` triangles of the
\* pose `frame`; the floats behind them are stale
GeoFills == { [used |-> n, frame |-> f] : n \in 0..GeoTris, f \in 1..2 }
NoGeometry == [used |-> 0, frame |-> 1]
native_geometry(geo, fill) ==
    [position_data |-> [j \in FloatIdx(9) |->
         IF j < 9 * fill.used THEN fill.frame * (j + 1) ELSE geo.position_data[j]],
     color_data |-> [j \in FloatIdx(9) |->
         IF j < 9 * fill.used THEN (j + fill.frame) % 2 ELSE geo.color_data[j]],
     uv_data |-> [j \in FloatIdx(6) |->
         IF j < 6 * fill.used THEN (j \div 2 + fill.frame) % 2 ELSE geo.uv_data[j]],
     numTrianglesUsed |-> fill.used]

\* a decoder that adds on every axis
host_coord_unsigned(origin_c, sign, engine, scale) == origin_c * scale + engine * HostDen
\* origin_offset[axis] + engine / SM64_SCALE_FACTOR (sign = 1) or
\* origin_offset[axis] - engine / SM64_SCALE_FACTOR (sign = -1)
host_coord(origin_c, sign, engine, scale) == origin_c * scale + sign * engine * HostDen

\* lines 370-378 and 407-415, for vertex v = 3*i + k
vertex_co(geo, v) ==
    LET b == 9 * (v \div 3) + 3 * (v % 3)
    IN << host_coord(origin_offset[1], 1, geo.position_data[b], SM64_SCALE_FACTOR),
          host_coord(origin_offset[2], -1, geo.position_data[b + 2], SM64_SCALE_FACTOR),
          host_coord(origin_offset[3], 1, geo.position_data[b + 1], SM64_SCALE_FACTOR) >>
\* lines 379-381
loop_uv(geo, v) ==
    LET b == 6 * (v \div 3) + 2 * (v % 3)
    IN << geo.uv_data[b], geo.uv_data[b + 1] >>
\* lines 382-399
loop_color(geo, v) ==
    LET b == 9 * (v \div 3) + 3 * (v % 3)
    IN << geo.color_data[b], geo.color_data[b + 1], geo.color_data[b + 2], 1 >>

\* a decoder that runs over the whole capacity
update_mesh_data_whole_capacity(m, geo) ==
    [co |-> [v \in VertIdx |-> vertex_co(geo, v)],
     uv |-> [v \in VertIdx |-> loop_uv(geo, v)],
     color |-> [v \in VertIdx |-> loop_color(geo, v)]]
\* update_mesh_data(mesh): lines 366-400, for i in range(numTrianglesUsed)
update_mesh_data(m, geo) ==
    [co |-> [v \in VertIdx |->
                IF v \div 3 < geo.numTrianglesUsed THEN vertex_co(geo, v) ELSE m.co[v]],
     uv |-> [v \in VertIdx |->
                IF v \div 3 < geo.numTrianglesUsed THEN loop_uv(geo, v) ELSE m.uv[v]],
     color |-> [v \in VertIdx |->
                IF v \div 3 < geo.numTrianglesUsed THEN loop_color(geo, v)
                ELSE m.color[v]]]

\* a fast decoder that refreshes the uv layer as well
update_mesh_data_fast_with_uv(m, geo) ==
    [update_mesh_data(m, geo) EXCEPT !.color = m.color]
\* update_mesh_data_fast(mesh): lines 402-418.  bm.from_mesh copies the mesh
\* with its layers, the loop moves bm.verts, bm.to_mesh writes the copy back
update_mesh_data_fast(m, geo) ==
    LET bm == m
        moved == [bm EXCEPT !.co = [v \in VertIdx |->
                     IF v \div 3 < geo.numTrianglesUsed THEN vertex_co(geo, v)
                     ELSE bm.co[v]]]
    IN moved

\* the full decode kept for every tick
DecodeModeAlwaysFull(count) == "full"
\* lines 203-206
DecodeMode(count) == IF count < FullDecodeTicks THEN "full" ELSE "fast"

\* tick_mario writing the view direction before it samples
tick_mario_look_before_sample(sample, view_ok, look) ==
    IF ~Globals.mario_obj
    THEN stop_tick_mario(Globals)
    ELSE IF ~view_ok
         THEN [Globals EXCEPT !.mario_inputs = sample_input_reader(@, sample),
                              !.raised = TRUE]
         ELSE LET g1 == [Globals EXCEPT !.mario_inputs.camLookX = look[1],
                                        !.mario_inputs.camLookZ = -look[2]]
                  g2 == [g1 EXCEPT !.mario_inputs = sample_input_reader(@, sample)]
                  g3 == sm64_mario_tick(g2)
              IN [g3 EXCEPT !.last_decode = DecodeMode(g3.tick_count),
                            !.tick_count = @ + 1]

\* tick_mario sampling the inputs before it looks for the object
tick_mario_samples_first(sample, view_ok, look) ==
    LET g1 == [Globals EXCEPT !.mario_inputs = sample_input_reader(@, sample)]
    IN IF ~Globals.mario_obj
       THEN stop_tick_mario(g1)
       ELSE IF ~view_ok
            THEN [g1 EXCEPT !.raised = TRUE]
            ELSE LET g2 == [g1 EXCEPT !.mario_inputs.camLookX = look[1],
                                      !.mario_inputs.camLookZ = -look[2]]
                     g3 == sm64_mario_tick(g2)
                 IN [g3 EXCEPT !.last_decode = DecodeMode(g3.tick_count),
                               !.tick_count = @ + 1]

\* view_ok: the screen has a VIEW_3D area (lines 179-184); without one the
\* name view3d is unbound and line 184 raises
tick_mario(sample, view_ok, look) ==
    IF ~Globals.mario_obj
    THEN stop_tick_mario(Globals)                                   \* 173-175
    ELSE LET g1 == [Globals EXCEPT !.mario_inputs = sample_input_reader(@, sample)]
         IN IF ~view_ok
            THEN [g1 EXCEPT !.raised = TRUE]
            ELSE LET g2 == [g1 EXCEPT !.mario_inputs.camLookX = look[1],
                                      !.mario_inputs.camLookZ = -look[2]]
                     g3 == sm64_mario_tick(g2)
                 IN [g3 EXCEPT !.last_decode = DecodeMode(g3.tick_count),
                               !.tick_count = @ + 1]

\* the host calls each registered frame_change_pre handler on a frame change
\* with samples, view states and view directions out of the given sets, for
\* sessions of at most max_ticks ticks
TickBody(samples, views, looks, fills, max_ticks) ==
    /\ handlers > 0
    /\ \E sample \in samples, view_ok \in views, look \in looks, fill \in fills :
        \E g \in { tick_mario(sample, view_ok, look) } :
           /\ g.tick_count <= max_ticks
           /\ Commit(g)
           /\ IF mario_obj /\ view_ok                      \* line 190 is reached
              THEN /\ mario_geo' = native_geometry(mario_geo, fill)
                   /\ mesh' = IF g.last_decode = "full"             \* 203-206
                              THEN update_mesh_data(mesh, mario_geo')
                              ELSE update_mesh_data_fast(mesh, mario_geo')
              ELSE UNCHANGED meshVars
           /\ look_dir' = IF mario_obj /\ view_ok THEN look ELSE look_dir   \* 186
           /\ op' = [name |-> "tick", rom |-> "n/a", err |-> g.err,
                     raised |-> g.raised, report |-> "none"]
           /\ UNCHANGED <<SM64_SCALE_FACTOR, origin_offset, surfaces,
                          surface_array, surface_array_len, scene>>

\* the session seen without its worker threads: what the sample finds is
\* drawn from `samples`
TickWith(samples, views, looks, max_ticks) ==
    /\ TickBody(samples, views, looks, {NoGeometry}, max_ticks)
    /\ UNCHANGED readerVars

Tick == TickWith(Samples, BOOLEAN, LookDirs, MaxTicks)

\* the user deletes the 'LibSM64 Mario' object from the scene
DeleteMarioObject ==
    /\ mario_obj
    /\ mario_obj' = FALSE
    /\ calls' = <<>>
    /\ op' = [name |-> "delete", rom |-> "n/a", err |-> "None",
              raised |-> FALSE, report |-> "none"]
    /\ UNCHANGED readerVars
    /\ UNCHANGED meshVars
    /\ UNCHANGED <<scene, look_dir>>
    /\ UNCHANGED <<sm64, sm64_mario_id, SM64_SCALE_FACTOR, origin_offset, original_fps,
                   tick_count, mario_inputs, thread_running, handlers, fps, surfaces,
                   native, mario, timers, workers, mesh_exists, surface_array,
                   surface_array_len, last_decode>>

\* input_value at import: __init__.py lines 120-128
NoKeys ==
    [UP |-> FALSE, DOWN |-> FALSE, LEFT |-> FALSE, RIGHT |-> FALSE,
     A |-> FALSE, B |-> FALSE, C |-> FALSE]

ThreadIds == 1..MaxThreads

\* the main thread outside sample_input_reader.  pc is the statement it stands
\* at, has_line and line are the locals of the subprocess backend's sample;
\* the rest observes the last sample: pending counts the items that were in
\* the queue when it began and are still there, held is mario_inputs as the
\* sample found it, quiet says that no worker queued data between the end of
\* the sample before and the end of this one, raised that it ended by an error
IdleSampler ==
    [pc |-> "idle", has_line |-> FALSE, line |-> <<>>, pending |-> 0,
     held |-> NeutralInputs, quiet |-> FALSE, raised |-> FALSE]

\* input_reader.py lines 4-5, input_reader_win.py lines 6-8, __init__.py 116-128
ReaderAtImport ==
    /\ events = <<>>
    /\ threads = [t \in ThreadIds |-> "unborn"]
    /\ keyboard_control = FALSE
    /\ input_value = NoKeys
    /\ modal = FALSE
    /\ g_queue = [bound |-> FALSE, items |-> <<>>]
    /\ g_running = FALSE
    /\ g_shouldStop = FALSE
    /\ win_thread = "none"
    /\ proc = "none"
    /\ sampler = IdleSampler
    /\ produced = FALSE

\* the state after the modules are imported
InitModules ==
    /\ ReaderAtImport
    /\ sm64 = "None"
    /\ sm64_mario_id = -1
    /\ SM64_SCALE_FACTOR = DefaultScale
    /\ origin_offset = <<0, 0, 0>>
    /\ original_fps = 0
    /\ tick_count = 0
    /\ mario_inputs = NeutralInputs
    /\ thread_running = FALSE
    /\ handlers = 0
    /\ mario_obj = FALSE
    /\ fps \in UserFpsValues
    /\ native = NativeAtStart
    /\ mario = NoMario
    /\ timers = 0
    /\ workers = 0
    /\ mesh_exists = FALSE
    /\ surface_array = <<>>
    /\ surface_array_len = 0
    /\ calls = <<>>
    /\ last_decode = "none"
    /\ op = [name |-> "init", rom |-> "n/a", err |-> "None",
             raised |-> FALSE, report |-> "none"]
    /\ mario_geo = EmptyGeo
    /\ mesh = NewMesh
    /\ look_dir = <<0, 0>>

\* the start of the specifications that take the list get_all_surfaces
\* returned as given, in `surfaces`, and leave the scene behind it aside
InitCommon ==
    /\ InitModules
    /\ scene = <<>>

\* the session is modelled with the evdev backend imported (mario.py line 13)
Init ==
    /\ InitCommon
    /\ platform = "Linux"
    /\ surfaces \in SessionScenes

Next == Insert \/ Tick \/ DeleteMarioObject

Spec == Init /\ [][Next]_vars

(***************************************************************************)
(* Long sessions: the same operations with one scene, one scale and one    *)
(* cursor position, run past the switch of the geometry decode             *)
(***************************************************************************)
InitLong ==
    /\ InitCommon
    /\ platform = "Linux"
    /\ surfaces = <<TriIn>>

InsertLong == InsertWith({"missing", "valid"}, {-1, 0}, {DefaultScale}, {<<0, 0, 0>>})

TickLong ==
    TickWith({ s \in Samples : ~s.new }, BOOLEAN, { Forward }, MaxLongTicks)

NextLong == InsertLong \/ TickLong \/ DeleteMarioObject

SpecLong == InitLong /\ [][NextLong]_vars

(***************************************************************************)
(* Timer-based revision: interop.py (SM64Mario) and mario_op.py            *)
(***************************************************************************)
\* where the 3D cursor is when Insert is pressed (numerators over HostDen)
StartPositions == { <<0, 0, 0>>, <<HostDen, -2 * HostDen, 3>>, <<0, 0, Big>> }

\* static_surfaces_load(): interop.py lines 113-132; the int() results are
\* stored into c_int16 fields
interop_surface(s) ==
    [surftype |-> 0, force |-> 0, terrain |-> 1,
     v0x |-> WrapInt16(Trunc(DefaultScale *  s.v0x, HostDen)),
     v0y |-> WrapInt16(Trunc(DefaultScale *  s.v0z, HostDen)),
     v0z |-> WrapInt16(Trunc(DefaultScale * (-s.v0y), HostDen)),
     v1x |-> WrapInt16(Trunc(DefaultScale *  s.v1x, HostDen)),
     v1y |-> WrapInt16(Trunc(DefaultScale *  s.v1z, HostDen)),
     v1z |-> WrapInt16(Trunc(DefaultScale * (-s.v1y), HostDen)),
     v2x |-> WrapInt16(Trunc(DefaultScale *  s.v2x, HostDen)),
     v2y |-> WrapInt16(Trunc(DefaultScale *  s.v2z, HostDen)),
     v2z |-> WrapInt16(Trunc(DefaultScale * (-s.v2y), HostDen))]
static_surfaces_load(g, surfs) ==
    LET arr == [i \in 1..Len(surfs) |-> interop_surface(surfs[i])]
    IN sm64_static_surfaces_load(g, Len(arr))

\* the arguments of sm64_mario_create: interop.py lines 82-86 (c_int16 argtypes)
SpawnArgs(start_pos) ==
    << WrapInt16(Trunc(DefaultScale * start_pos[1], HostDen)),
       WrapInt16(Trunc(DefaultScale * start_pos[3], HostDen) + SpawnYOffset),
       WrapInt16(-Trunc(DefaultScale * start_pos[2], HostDen)) >>

\* SM64Mario.__init__(start_pos): interop.py lines 61-90
SM64Mario_init(g, rom, create_ret, start_pos) ==
    LET g1 == IF g.sm64 = "None"                                    \* 64
              THEN LET l == LoadLibrary(g)                          \* 69
                   IN IF rom = "missing"
                      THEN [l EXCEPT !.raised = TRUE]               \* open() raises
                      ELSE static_surfaces_load(sm64_global_init(l, rom), surfaces)
              ELSE g
    IN IF g1.raised THEN g1
       ELSE [g1 EXCEPT
               !.native = NativeCreate(@, create_ret),
               !.calls = Append(@, CallEntry("sm64_mario_create", g1.native,
                                             SpawnArgs(start_pos), create_ret)),
               !.mario = [exists |-> TRUE, mario_id |-> AsUint32(create_ret)]]

\* execute without the test for an existing Mario
timer_execute_unguarded(rom, create_ret, start_pos) ==
    LET g1 == [Globals EXCEPT !.workers = @ + 1]
        g2 == SM64Mario_init(g1, rom, create_ret, start_pos)
    IN IF g2.raised THEN g2
       ELSE [g2 EXCEPT !.timers = @ + 1]

\* InsertMario_OT_Operator.execute: mario_op.py lines 173-188
timer_execute(rom, create_ret, start_pos) ==
    IF Globals.mario.exists THEN Globals                            \* 177-178
    ELSE LET g1 == [Globals EXCEPT !.workers = @ + 1]               \* 180-182
             g2 == SM64Mario_init(g1, rom, create_ret, start_pos)   \* 184
         IN IF g2.raised THEN g2
            ELSE [g2 EXCEPT !.timers = @ + 1]                       \* 186

TimerInsert ==
    /\ workers < MaxWorkers \/ mario.exists
    /\ \E rom \in RomStates, create_ret \in CreateResults, start_pos \in StartPositions :
        \E g \in { timer_execute(rom, create_ret, start_pos) } :
           /\ Commit(g)
           /\ op' = [name |-> "timer_insert", rom |-> rom, err |-> g.err,
                     raised |-> g.raised, report |-> OperatorReport(g)]
           /\ UNCHANGED readerVars
           /\ UNCHANGED meshVars
           /\ UNCHANGED <<scene, look_dir>>
           /\ UNCHANGED <<SM64_SCALE_FACTOR, origin_offset, surfaces,
                          surface_array, surface_array_len>>

\* SM64Mario.tick(): interop.py lines 92-94
SM64Mario_tick(g) ==
    [g EXCEPT !.calls = Append(@, CallEntry("sm64_mario_tick", g.native,
                                            <<g.sm64, g.mario.mario_id>>, 0))]

\* tick_mario(): mario_op.py lines 108-166.  A timer whose function raises is
\* dropped by the host; one that returns 1/30 stays registered
timer_tick_mario(sample, view_ok, look) ==
    LET g1 == [Globals EXCEPT !.mesh_exists = TRUE,                 \* 111-118
                              !.mario_inputs = sample_input_reader(@, sample)]
    IN IF ~view_ok
       THEN [g1 EXCEPT !.raised = TRUE, !.timers = @ - 1]           \* 145-146
       ELSE LET g2 == [g1 EXCEPT !.mario_inputs.camLookX = look[1],
                                 !.mario_inputs.camLookZ = -look[2]]
            IN [SM64Mario_tick(g2) EXCEPT !.last_decode = "full"]

TimerTick ==
    /\ timers > 0
    /\ \E sample \in Samples, view_ok \in BOOLEAN, look \in LookDirs :
        \E g \in { timer_tick_mario(sample, view_ok, look) } :
           /\ Commit(g)
           /\ op' = [name |-> "timer_tick", rom |-> "n/a", err |-> g.err,
                     raised |-> g.raised, report |-> "none"]
           /\ UNCHANGED readerVars
           /\ UNCHANGED meshVars
           /\ UNCHANGED <<scene, look_dir>>
           /\ UNCHANGED <<SM64_SCALE_FACTOR, origin_offset, surfaces,
                          surface_array, surface_array_len>>

NextTimer == TimerInsert \/ TimerTick

SpecTimer == Init /\ [][NextTimer]_vars

\* one of the two revisions is installed: the first operation run tells which
HandlerRevision == op.name \in {"init", "insert", "tick", "delete"}
TimerRevision == op.name \in {"init", "timer_insert", "timer_tick"}
NextEither ==
    \/ HandlerRevision /\ Next
    \/ TimerRevision /\ NextTimer

SpecEither == Init /\ [][NextEither]_vars

(***************************************************************************)
(* The extractor on its own: any scene, scale and origin                   *)
(***************************************************************************)
InitExtract ==
    /\ InitCommon
    /\ platform = "Linux"
    /\ surfaces \in Scenes

ExtractWith(scales, cursors) ==
    \E scale \in scales, cursor \in cursors :
        \E sa \in { get_surface_array_from_scene(surfaces, scale, cursor) } :
           /\ surface_array' = sa[1]
           /\ surface_array_len' = sa[2]
           /\ SM64_SCALE_FACTOR' = scale
           /\ origin_offset' = cursor
           /\ op' = [name |-> "extract", rom |-> "n/a", err |-> "None",
                     raised |-> FALSE, report |-> "none"]
           /\ UNCHANGED readerVars
           /\ UNCHANGED meshVars
           /\ UNCHANGED <<scene, look_dir>>
           /\ UNCHANGED <<sm64, sm64_mario_id, original_fps, tick_count, mario_inputs,
                          thread_running, handlers, mario_obj, fps, surfaces, native,
                          mario, timers, workers, mesh_exists, calls, last_decode>>

Extract == ExtractWith(Scales, Origins)

NextExtract == Extract

SpecExtract == InitExtract /\ [][NextExtract]_vars

\* ---- the conversion of single vertices.  mario_scale is a float property
\* (__init__.py lines 52-55): the scale need not be a multiple of HostDen
FineScale == 3
ConvertScales == { FineScale, DefaultScale }
ConvertCoords == { -5, -1, 0, 1, 3, 6, Big }
ConvertPoints == { <<x, y, z>> : x \in ConvertCoords, y \in ConvertCoords, z \in ConvertCoords }

InitConvert ==
    /\ InitCommon
    /\ platform = "Linux"
    /\ surfaces \in { << Tri(p, VIn1, VIn3, SURFACE_DEFAULT, TERRAIN_GRASS) >> :
                          p \in ConvertPoints }

ExtractConvert == ExtractWith(ConvertScales, Origins)

NextConvert == ExtractConvert

SpecConvert == InitConvert /\ [][NextConvert]_vars

(***************************************************************************)
(* The input reader: input_reader.py (evdev backend), input_reader_win.py  *)
(* (controller.exe backend) and the keyboard flag of __init__.py.          *)
(* The main thread calls start, stop and sample; the worker threads run    *)
(* between any two statements of the main thread.  Stick values are        *)
(* numerators over AxisDen, camera steps are counted in eighths.           *)
(***************************************************************************)
Platforms == {"Linux", "Windows"}

\* the reader state an operation works on, in source order
ReaderState ==
    [thread_running |-> thread_running, events |-> events, threads |-> threads,
     keyboard_control |-> keyboard_control, input_value |-> input_value,
     modal |-> modal, g_queue |-> g_queue, g_running |-> g_running,
     g_shouldStop |-> g_shouldStop, win_thread |-> win_thread, proc |-> proc,
     sampler |-> sampler, produced |-> produced, mario_inputs |-> mario_inputs,
     report |-> "none", raised |-> FALSE]

hostVars == <<sm64, sm64_mario_id, SM64_SCALE_FACTOR, origin_offset, original_fps,
              tick_count, handlers, mario_obj, fps, surfaces, native, mario, timers,
              workers, mesh_exists, surface_array, surface_array_len, calls,
              last_decode, platform, mario_geo, mesh, scene, look_dir>>

\* the reader state a finished step leaves behind
CommitReader(r, name) ==
    /\ thread_running' = r.thread_running
    /\ events' = r.events
    /\ threads' = r.threads
    /\ keyboard_control' = r.keyboard_control
    /\ input_value' = r.input_value
    /\ modal' = r.modal
    /\ g_queue' = r.g_queue
    /\ g_running' = r.g_running
    /\ g_shouldStop' = r.g_shouldStop
    /\ win_thread' = r.win_thread
    /\ proc' = r.proc
    /\ sampler' = r.sampler
    /\ produced' = r.produced
    /\ mario_inputs' = r.mario_inputs
    /\ op' = [name |-> name, rom |-> "n/a", err |-> "None",
              raised |-> r.raised, report |-> r.report]
    /\ UNCHANGED hostVars

\* ---- evdev backend: input_reader.py
FreeThreads == { t \in ThreadIds : threads[t] \in {"unborn", "exited", "died"} }
AliveThreads == { t \in ThreadIds : threads[t] \in {"test", "read"} }
FirstFree == CHOOSE t \in FreeThreads : \A u \in FreeThreads : t <= u

\* start_input_reader: lines 13-22; the new thread stands at the loop test
start_input_reader_linux(r) ==
    IF r.thread_running
    THEN r                                                          \* 16-17
    ELSE [start_input_reader(r) EXCEPT !.threads[FirstFree] = "test"]

\* stop_input_reader: lines 24-26
stop_input_reader_linux(r) == stop_input_reader(r)

\* the loop test leaving the thread in the loop whatever the flag says
thread_loop_test_forever(r, t) ==
    [r EXCEPT !.threads[t] = "read"]
\* while thread_running: line 10
thread_loop_test(r, t) ==
    [r EXCEPT !.threads[t] = IF r.thread_running THEN "read" ELSE "exited"]

\* a worker that also writes the first event's state into the inputs struct
thread_append_applying(r, t, batch) ==
    [r EXCEPT !.events = Append(@, batch), !.threads[t] = "test",
              !.produced = TRUE, !.mario_inputs.stickX = batch[1].state]
\* events.append(zeth_inputs.get_gamepad()): line 11, once the read returned
thread_append(r, t, batch) ==
    [r EXCEPT !.events = Append(@, batch), !.threads[t] = "test",
              !.produced = TRUE]

\* zeth_inputs.get_gamepad raises (UnpluggedError): the thread ends
thread_read_raises(r, t) ==
    [r EXCEPT !.threads[t] = "died"]

\* _read_axis: lines 86-90, from a raw axis value to a numerator over AxisDen;
\* val < 0.2 is 5 * raw < AxisRange, and (val - 0.2) / 0.8 is
\* (5 * raw - AxisRange) / (4 * AxisRange)
read_axis_one_sided(raw) ==
    IF 5 * raw < AxisRange /\ 5 * raw > -AxisRange THEN 0 ELSE 5 * raw - AxisRange
read_axis(raw) ==
    IF 5 * raw < AxisRange /\ 5 * raw > -AxisRange
    THEN 0
    ELSE IF raw > 0 THEN 5 * raw - AxisRange ELSE 5 * raw + AxisRange

\* lines 65-72 and 74-81: stick_magnitude against JOYSTICK_TRESHOLD = 0.3
CamStep(magnitude, incr) ==
    IF 10 * magnitude > 3 * AxisDen THEN incr
    ELSE IF 10 * magnitude < -3 * AxisDen THEN -incr
    ELSE 0

\* the body of `for event in events[0]`: lines 45-81
process_event(inputs, e) ==
    LET i1 == CASE e.code = "ABS_X" -> [inputs EXCEPT !.stickX = read_axis(e.state)]
                [] e.code = "ABS_Y" -> [inputs EXCEPT !.stickY = read_axis(e.state)]
                [] e.code = "BTN_SOUTH" -> [inputs EXCEPT !.buttonA = (e.state = 1)]
                [] e.code = "BTN_NORTH" -> [inputs EXCEPT !.buttonB = (e.state = 1)]
                [] e.code = "BTN_TL" -> [inputs EXCEPT !.buttonZ = (e.state = 1)]
                [] OTHER -> inputs
    IN CASE e.code = "ABS_RX" ->
              [i1 EXCEPT !.camLookX = CamStep(read_axis(e.state), CAM_TURN_EIGTH)]
         [] e.code = "ABS_RY" ->
              [i1 EXCEPT !.camLookZ = CamStep(read_axis(e.state), ZOOM_INCR)]
         [] OTHER -> i1

RECURSIVE process_batch(_, _)
process_batch(inputs, batch) ==
    IF batch = <<>> THEN inputs
    ELSE process_batch(process_event(inputs, Head(batch)), Tail(batch))

\* True * 1 - False * 1 of lines 37-38, as a numerator over AxisDen
KeyAxis(plus, minus) ==
    ((IF plus THEN 1 ELSE 0) - (IF minus THEN 1 ELSE 0)) * AxisDen

\* what a sample leaves behind when it returns
sample_return(r, raised) ==
    [r EXCEPT !.sampler.pc = "idle", !.sampler.quiet = ~r.produced,
              !.sampler.raised = raised, !.raised = raised, !.produced = FALSE]

\* sample_input_reader, lines 33-42: up to the first loop test
sample_begin_linux(r) ==
    LET r1 == [r EXCEPT !.sampler = [IdleSampler EXCEPT !.held = r.mario_inputs,
                                                       !.pending = Len(r.events)],
                        !.mario_inputs.camLookX = 0,                \* 34
                        !.mario_inputs.camLookZ = 0]                \* 35
    IN IF r.keyboard_control                                        \* 36
       THEN sample_return(
              [r1 EXCEPT !.mario_inputs.stickX =
                             KeyAxis(r.input_value.RIGHT, r.input_value.LEFT),
                         !.mario_inputs.stickY =
                             KeyAxis(r.input_value.DOWN, r.input_value.UP),
                         !.mario_inputs.buttonA = r.input_value.A,
                         !.mario_inputs.buttonB = r.input_value.B,
                         !.mario_inputs.buttonZ = r.input_value.C], FALSE)
       ELSE [r1 EXCEPT !.sampler.pc = "loop"]

\* one turn of `while len(events) > 0`: lines 43-84
sample_loop_linux(r) ==
    IF Len(r.events) > 0
    THEN [r EXCEPT !.mario_inputs = process_batch(@, Head(r.events)),
                   !.events = Tail(@),                              \* pop(0)
                   !.sampler.pending = IF @ > 0 THEN @ - 1 ELSE 0]
    ELSE sample_return(r, FALSE)

\* ---- controller.exe backend: input_reader_win.py
\* stop_input_reader that also gives up the running flag
stop_input_reader_win_clears_running(r) ==
    [r EXCEPT !.g_shouldStop = TRUE, !.g_running = FALSE]
\* stop_input_reader: lines 35-37
stop_input_reader_win(r) ==
    [r EXCEPT !.g_shouldStop = TRUE]

\* start_input_reader: lines 23-33; the new thread stands at line 12
start_input_reader_win(r) ==
    LET r1 == [r EXCEPT !.g_shouldStop = FALSE]                     \* 25
    IN IF r1.g_running
       THEN r1                                                      \* 26-27
       ELSE [r1 EXCEPT !.g_running = TRUE, !.win_thread = "popen"]

\* enqueue_output line by line: lines 10-21
enqueue_popen(r) ==                                                 \* 12
    [r EXCEPT !.proc = "running", !.win_thread = "mkqueue"]
enqueue_make_queue(r) ==                                            \* 13
    [r EXCEPT !.g_queue = [bound |-> TRUE, items |-> <<>>],
              !.sampler.pending = 0,
              !.win_thread = "test"]
enqueue_loop_test(r) ==                                             \* 14
    [r EXCEPT !.win_thread = IF ~r.g_shouldStop THEN "poll" ELSE "close"]
enqueue_poll(r) ==                                                  \* 15, 17
    [r EXCEPT !.win_thread = IF r.proc = "running" THEN "read" ELSE "setstop"]
enqueue_put(r, line) ==                                             \* 16
    [r EXCEPT !.g_queue.items = Append(@, line), !.win_thread = "test",
              !.produced = TRUE]
enqueue_set_stop(r) ==                                              \* 18
    [r EXCEPT !.g_shouldStop = TRUE, !.win_thread = "test"]
enqueue_close_kill(r) ==                                            \* 19-20
    [r EXCEPT !.proc = IF @ = "running" THEN "killed" ELSE @,
              !.win_thread = "setrun"]
enqueue_set_running(r) ==                                           \* 21
    [r EXCEPT !.g_running = FALSE, !.win_thread = "done"]

\* _sample_empty_inputs: lines 58-63
sample_empty_inputs(inputs) ==
    [inputs EXCEPT !.stickX = 0, !.stickY = 0, !.buttonA = FALSE,
                   !.buttonB = FALSE, !.buttonZ = FALSE]

\* a sample that leaves the inputs alone when it has no complete line
sample_line_holding(inputs, has_line, line) ==
    IF ~has_line \/ Len(line) < 5 THEN inputs
    ELSE [inputs EXCEPT !.stickX = read_axis(line[1]),
                        !.stickY = read_axis(line[2]),
                        !.buttonA = line[3] # 0,
                        !.buttonB = line[4] # 0,
                        !.buttonZ = line[5] # 0]
\* lines 45-56, with the line already split into its integers
sample_line(inputs, has_line, line) ==
    IF ~has_line THEN sample_empty_inputs(inputs)                   \* 45-47
    ELSE IF Len(line) < 5 THEN sample_empty_inputs(inputs)          \* 49-51
    ELSE [inputs EXCEPT !.stickX = read_axis(line[1]),
                        !.stickY = read_axis(line[2]),
                        !.buttonA = line[3] # 0,
                        !.buttonB = line[4] # 0,
                        !.buttonZ = line[5] # 0]

\* sample_input_reader, line 41
sample_begin_win(r) ==
    [r EXCEPT !.sampler = [IdleSampler EXCEPT !.pc = "test",
                                              !.held = r.mario_inputs,
                                              !.pending = Len(r.g_queue.items)]]

\* while not g_queue.empty(): line 42, and lines 45-56 when the loop is left;
\* g_queue is still None when no worker has reached line 13
sample_test_win(r) ==
    IF ~r.g_queue.bound THEN sample_return(r, TRUE)
    ELSE IF r.g_queue.items # <<>> THEN [r EXCEPT !.sampler.pc = "get"]
    ELSE sample_return(
           [r EXCEPT !.mario_inputs =
                         sample_line(@, r.sampler.has_line, r.sampler.line)],
           FALSE)

\* has_line = True; line = g_queue.get(): lines 43-44, once get has an item
sample_get_win(r) ==
    [r EXCEPT !.sampler.has_line = TRUE,
              !.sampler.line = Head(r.g_queue.items),
              !.g_queue.items = Tail(@),
              !.sampler.pending = IF @ > 0 THEN @ - 1 ELSE 0,
              !.sampler.pc = "test"]

\* ---- __init__.py: ControlMario_OT_Operator.invoke, lines 97-103
control_invoke(r) ==
    LET r1 == [r EXCEPT !.keyboard_control = TRUE]                  \* 99
    IN IF ~mario_obj
       THEN [r1 EXCEPT !.report = "ERROR"]                          \* 100-101
       ELSE [r1 EXCEPT !.modal = TRUE]                              \* 102

\* ---- what the devices deliver
Ev(code, state) == [code |-> code, state |-> state]
Batches ==
    { << Ev("ABS_X", AxisMax), Ev("BTN_SOUTH", 1), Ev("ABS_RX", -AxisRange) >>,
      << Ev("ABS_X", 0), Ev("BTN_SOUTH", 0), Ev("SYN_REPORT", 0) >> }
\* the lines controller.exe prints; readline gives '' at end of file
Lines == { <<AxisMax, 0, 1, 0, 0>>, <<0, 0, 0, 0, 0>> }
EndOfFile == <<>>

\* ---- the steps of the main thread
\* the tick handler samples only in a session, that is after a start
ReaderStarted ==
    IF platform = "Windows" THEN win_thread # "none"
    ELSE \E t \in ThreadIds : threads[t] # "unborn"

StartInputReader ==
    /\ sampler.pc = "idle"
    /\ IF platform = "Windows"
       THEN CommitReader(start_input_reader_win(ReaderState), "start_input_reader")
       ELSE /\ thread_running \/ FreeThreads # {}
            /\ CommitReader(start_input_reader_linux(ReaderState), "start_input_reader")

StopInputReader ==
    /\ sampler.pc = "idle"
    /\ IF platform = "Windows"
       THEN CommitReader(stop_input_reader_win(ReaderState), "stop_input_reader")
       ELSE CommitReader(stop_input_reader_linux(ReaderState), "stop_input_reader")

SampleBegin ==
    /\ sampler.pc = "idle"
    /\ ReaderStarted
    /\ IF platform = "Windows"
       THEN CommitReader(sample_begin_win(ReaderState), "sample_input_reader")
       ELSE CommitReader(sample_begin_linux(ReaderState), "sample_input_reader")

SampleLoop ==
    /\ sampler.pc = "loop"
    /\ CommitReader(sample_loop_linux(ReaderState), "sample_input_reader")

SampleTest ==
    /\ sampler.pc = "test"
    /\ CommitReader(sample_test_win(ReaderState), "sample_input_reader")

\* Queue.get() waits while the queue is empty
SampleGet ==
    /\ sampler.pc = "get"
    /\ g_queue.items # <<>>
    /\ CommitReader(sample_get_win(ReaderState), "sample_input_reader")

ControlInvoke ==
    /\ sampler.pc = "idle"
    /\ CommitReader(control_invoke(ReaderState), "control_invoke")

\* ---- the steps of the worker threads
ThreadLoopTestOf(t) ==
    /\ threads[t] = "test"
    /\ CommitReader(thread_loop_test(ReaderState, t), "worker")

ThreadLoopTest == \E t \in ThreadIds : ThreadLoopTestOf(t)

\* the blocking read returns a batch of events
ThreadAppend ==
    \E t \in ThreadIds, batch \in Batches :
        /\ threads[t] = "read"
        /\ Len(events) < MaxQueue
        /\ CommitReader(thread_append(ReaderState, t, batch), "worker")

ThreadReadRaises ==
    \E t \in ThreadIds :
        /\ threads[t] = "read"
        /\ CommitReader(thread_read_raises(ReaderState, t), "worker")

EnqueuePopen ==
    /\ win_thread = "popen"
    /\ CommitReader(enqueue_popen(ReaderState), "worker")

EnqueueMakeQueue ==
    /\ win_thread = "mkqueue"
    /\ CommitReader(enqueue_make_queue(ReaderState), "worker")

EnqueueLoopTest ==
    /\ win_thread = "test"
    /\ CommitReader(enqueue_loop_test(ReaderState), "worker")

EnqueuePoll ==
    /\ win_thread = "poll"
    /\ CommitReader(enqueue_poll(ReaderState), "worker")

\* readline returns a line the child printed, or '' once the child is gone
EnqueuePut ==
    /\ win_thread = "read"
    /\ Len(g_queue.items) < MaxQueue
    /\ \E line \in (IF proc = "running" THEN Lines ELSE {EndOfFile}) :
          CommitReader(enqueue_put(ReaderState, line), "worker")

EnqueueSetStop ==
    /\ win_thread = "setstop"
    /\ CommitReader(enqueue_set_stop(ReaderState), "worker")

EnqueueCloseKill ==
    /\ win_thread = "close"
    /\ CommitReader(enqueue_close_kill(ReaderState), "worker")

EnqueueSetRunning ==
    /\ win_thread = "setrun"
    /\ CommitReader(enqueue_set_running(ReaderState), "worker")

\* controller.exe ends by itself
ChildExits ==
    /\ proc = "running"
    /\ proc' = "exited"
    /\ op' = [name |-> "child", rom |-> "n/a", err |-> "None",
              raised |-> FALSE, report |-> "none"]
    /\ UNCHANGED hostVars
    /\ UNCHANGED <<thread_running, events, threads, keyboard_control, input_value,
                   modal, g_queue, g_running, g_shouldStop, win_thread, sampler,
                   produced, mario_inputs>>

InitReader ==
    /\ InitCommon
    /\ platform \in Platforms
    /\ surfaces = <<>>

MainStep ==
    \/ StartInputReader
    \/ StopInputReader
    \/ SampleBegin
    \/ SampleLoop
    \/ SampleTest
    \/ SampleGet
    \/ ControlInvoke

\* the steps of the controller.exe thread that need nothing from outside
EnqueueStep ==
    \/ EnqueuePopen
    \/ EnqueueMakeQueue
    \/ EnqueueLoopTest
    \/ EnqueuePoll
    \/ EnqueueSetStop
    \/ EnqueueCloseKill
    \/ EnqueueSetRunning

\* the steps that wait for a device or for the child process
DeviceStep ==
    \/ ThreadAppend
    \/ ThreadReadRaises
    \/ EnqueuePut
    \/ ChildExits

NextReader == MainStep \/ ThreadLoopTest \/ EnqueueStep \/ DeviceStep

SpecReader == InitReader /\ [][NextReader]_vars

\* starting and stopping the workers, with no sample taken: every thread that
\* can take a step takes one; nothing says that a device read returns
NextThreads ==
    \/ StartInputReader
    \/ StopInputReader
    \/ ThreadLoopTest
    \/ EnqueueStep
    \/ DeviceStep

SpecThreads ==
    /\ InitReader
    /\ [][NextThreads]_vars
    /\ \A t \in ThreadIds : WF_vars(ThreadLoopTestOf(t))
    /\ WF_vars(EnqueueStep)

(***************************************************************************)
(* The host scene and get_all_surfaces: mario.py lines 261-303             *)
(***************************************************************************)
\* collision_types.COLLISION_TYPES (imported at line 8), for the keys used here
COLLISION_TYPES ==
    [SURFACE_DEFAULT |-> SURFACE_DEFAULT, SURFACE_BURNING |-> SURFACE_BURNING,
     TERRAIN_GRASS |-> TERRAIN_GRASS, TERRAIN_STONE |-> TERRAIN_STONE]

\* a node of a parent chain holds sm64_obj_type and terrainEnum, "absent"
\* where it has no such attribute
\* the test without the Area Root flag
terrain_source_unflagged(seek) ==
    seek.terrainEnum # "absent"

\* the test of line 280
terrain_source(seek) ==
    /\ seek.sm64_obj_type # "absent"
    /\ seek.sm64_obj_type = "Area Root"
    /\ seek.terrainEnum # "absent"

\* lines 277-286: chain is the object followed by its parents
RECURSIVE seek_terrain(_)
seek_terrain(chain) ==
    IF chain = <<>> THEN COLLISION_TYPES["TERRAIN_GRASS"]
    ELSE LET seek == Head(chain)
         IN IF terrain_source(seek)
            THEN COLLISION_TYPES[seek.terrainEnum]
            ELSE seek_terrain(Tail(chain))

\* lines 288-292: a slot holds the collision_type_simple of its material,
\* "absent" where the material has none
material_surftype(materials, material_index) ==
    IF material_index > 0 /\ material_index < Len(materials)
    THEN LET mat == materials[material_index + 1]
         IN IF mat # "absent" THEN COLLISION_TYPES[mat]
            ELSE COLLISION_TYPES["SURFACE_DEFAULT"]
    ELSE COLLISION_TYPES["SURFACE_DEFAULT"]

\* obj.matrix_world @ (vx, vy, vz, 1), lines 267-275, for a world matrix that
\* translates
vworld(obj, v) ==
    << v[1] + obj.matrix_world[1], v[2] + obj.matrix_world[2], v[3] + obj.matrix_world[3] >>

\* add_mesh(obj, out), lines 262-294, from loop triangle k on
RECURSIVE add_mesh(_, _, _)
add_mesh(obj, k, out) ==
    IF k > Len(obj.loop_triangles) THEN out
    ELSE LET tri == obj.loop_triangles[k]
             out_elem == Tri(vworld(obj, tri.vertices[1]), vworld(obj, tri.vertices[2]),
                             vworld(obj, tri.vertices[3]),
                             material_surftype(obj.materials, tri.material_index),
                             seek_terrain(obj.chain))
         IN add_mesh(obj, k + 1, Append(out, out_elem))

\* lines 296-303
RECURSIVE all_objects_loop(_, _)
all_objects_loop(objs, out) ==
    IF objs = <<>> THEN out
    ELSE all_objects_loop(Tail(objs),
                          IF Head(objs).is_mesh THEN add_mesh(Head(objs), 1, out) ELSE out)
get_all_surfaces(sc) == all_objects_loop(sc, <<>>)

\* ---- the scenes walked
SceneNode(type, terrain) == [sm64_obj_type |-> type, terrainEnum |-> terrain]
Chains ==
    { << SceneNode("absent", "absent") >>,
      << SceneNode("None", "absent"), SceneNode("Area Root", "TERRAIN_STONE") >>,
      << SceneNode("absent", "absent"), SceneNode("Area Root", "absent"),
         SceneNode("Area Root", "TERRAIN_STONE") >>,
      << SceneNode("Area Root", "TERRAIN_STONE"), SceneNode("Area Root", "TERRAIN_GRASS") >>,
      << SceneNode("None", "TERRAIN_STONE"), SceneNode("Area Root", "TERRAIN_GRASS"),
         SceneNode("Area Root", "TERRAIN_STONE") >> }
MaterialLists == SeqsUpTo({ "absent", "SURFACE_BURNING" }, MaxSlots)
LoopTriangles ==
    { [vertices |-> << VIn0, VIn1, VIn2 >>, material_index |-> i] : i \in 0..MaxSlots }
MeshObjects ==
    { [is_mesh |-> TRUE, loop_triangles |-> tris, materials |-> mats, chain |-> chain,
       matrix_world |-> w] :
         tris \in SeqsUpTo(LoopTriangles, 2) \ { <<>> }, mats \in MaterialLists,
         chain \in Chains, w \in Origins }
Camera ==
    [is_mesh |-> FALSE, loop_triangles |-> <<>>, materials |-> <<>>,
     chain |-> << SceneNode("absent", "absent") >>, matrix_world |-> << 0, 0, 0 >>]
SceneInputs == { << o >> : o \in MeshObjects } \cup { << Camera, o >> : o \in MeshObjects }

InitSurfaces ==
    /\ InitModules
    /\ platform = "Linux"
    /\ surfaces = <<>>
    /\ scene \in SceneInputs

GetAllSurfaces ==
    /\ surfaces' = get_all_surfaces(scene)
    /\ op' = [name |-> "get_all_surfaces", rom |-> "n/a", err |-> "None",
              raised |-> FALSE, report |-> "none"]
    /\ UNCHANGED <<sm64, sm64_mario_id, SM64_SCALE_FACTOR, origin_offset, original_fps,
                   tick_count, mario_inputs, thread_running, handlers, mario_obj, fps,
                   native, mario, timers, workers, mesh_exists, surface_array,
                   surface_array_len, calls, last_decode, scene, look_dir>>
    /\ UNCHANGED readerVars
    /\ UNCHANGED meshVars

NextSurfaces == GetAllSurfaces

SpecSurfaces == InitSurfaces /\ [][NextSurfaces]_vars

(***************************************************************************)
(* The evdev reader fed with single stick events of every raw value        *)
(***************************************************************************)
\* the value of an event is a signed 32-bit integer (zeth_inputs.py line 95,
\* EVENT_FORMAT 'llHHi') whose range is the device's: the 16-bit range
\* _read_axis divides by, and the far end of a stick reporting 0..65535
WideRaw == 2 * AxisRange - 1
AxisRaws == (-AxisRange .. AxisMax) \cup { WideRaw }

\* one ABS_X event arrives while the queue is empty and the stick is centred
AxisAppend ==
    /\ events = <<>>
    /\ sampler.pc = "idle"
    /\ mario_inputs = NeutralInputs
    /\ \E t \in { u \in ThreadIds : threads[u] = "read" }, raw \in AxisRaws :
          CommitReader(thread_append(ReaderState, t, << Ev("ABS_X", raw) >>), "worker")

AxisStart ==
    /\ ~thread_running
    /\ StartInputReader

InitAxis ==
    /\ InitCommon
    /\ platform = "Linux"
    /\ surfaces = <<>>

NextAxis ==
    \/ AxisStart
    \/ ThreadLoopTest
    \/ AxisAppend
    \/ SampleBegin
    \/ SampleLoop

SpecAxis == InitAxis /\ [][NextAxis]_vars

(***************************************************************************)
(* Sessions whose ticks deliver geometry                                   *)
(***************************************************************************)
InsertMesh == InsertWith({"valid"}, {0}, {DefaultScale}, Origins)

TickMesh ==
    /\ TickBody({ s \in Samples : ~s.new }, {TRUE}, { Forward }, GeoFills, MaxLongTicks)
    /\ UNCHANGED readerVars

NextMesh == InsertMesh \/ TickMesh

SpecMesh == InitLong /\ [][NextMesh]_vars

(***************************************************************************)
(* The keyboard operator: __init__.py lines 92-146                         *)
(***************************************************************************)
InputConfig ==
    [UP |-> "W", DOWN |-> "S", LEFT |-> "A", RIGHT |-> "D",
     A |-> "J", B |-> "K", C |-> "L"]

\* process_input(event): lines 140-146
process_input(value, event) ==
    [k \in DOMAIN value |->
        IF event.type = InputConfig[k] THEN event.value = "PRESS" ELSE value[k]]

\* ControlMario_OT_Operator.modal: lines 105-114; FINISHED removes the handler
control_modal(r, event) ==
    IF ~r.keyboard_control
    THEN [r EXCEPT !.modal = FALSE]                                 \* 106-107
    ELSE IF event.type = "ESC"
         THEN [r EXCEPT !.keyboard_control = FALSE, !.modal = FALSE] \* 108-110
         ELSE [r EXCEPT !.input_value = process_input(@, event)]    \* 112

\* the window events the host hands to the modal handler
KeyEvents ==
    { [type |-> "D", value |-> "PRESS"], [type |-> "D", value |-> "RELEASE"],
      [type |-> "J", value |-> "PRESS"], [type |-> "ESC", value |-> "PRESS"] }

ControlModal ==
    /\ sampler.pc = "idle"
    /\ modal
    /\ \E event \in KeyEvents :
          CommitReader(control_modal(ReaderState, event), "control_modal")

(***************************************************************************)
(* A session together with its evdev reader: mario.py with input_reader.py *)
(***************************************************************************)
\* sample_input_reader from its first line to its return, as the tick handler
\* runs it: lines 32-84
RECURSIVE sample_drain_linux(_)
sample_drain_linux(r) ==
    IF r.sampler.pc = "idle" THEN r ELSE sample_drain_linux(sample_loop_linux(r))
sample_whole_linux(r) == sample_drain_linux(sample_begin_linux(r))

\* the sticks and buttons that sample leaves in mario_inputs
SampledBy(r) ==
    [new |-> TRUE, camLookX |-> r.mario_inputs.camLookX,
     camLookZ |-> r.mario_inputs.camLookZ,
     stickX |-> r.mario_inputs.stickX, stickY |-> r.mario_inputs.stickY,
     buttonA |-> r.mario_inputs.buttonA, buttonB |-> r.mario_inputs.buttonB,
     buttonZ |-> r.mario_inputs.buttonZ]

\* insert_mario with its reader: stop_input_reader at line 107 clears the flag,
\* so start_input_reader at line 144 always starts a new thread
InsertSpawning(roms, create_rets, scales, cursors) ==
    /\ sampler.pc = "idle"
    /\ FreeThreads # {}
    /\ InsertBody(roms, create_rets, scales, cursors)
    /\ threads' = IF thread_running'
                  THEN [threads EXCEPT ![FirstFree] = "test"]       \* input_reader.py 14-19
                  ELSE threads
    /\ UNCHANGED <<platform, events, keyboard_control, input_value, modal, g_queue,
                   g_running, g_shouldStop, win_thread, proc, sampler, produced>>

\* tick_mario with the sample it takes at line 177
TickSamplingWith(views, looks, fills, max_ticks) ==
    \E r \in { sample_whole_linux(ReaderState) } :
       /\ sampler.pc = "idle"
       /\ TickBody({SampledBy(r)}, views, looks, fills, max_ticks)
       /\ events' = IF mario_obj THEN r.events ELSE events
       /\ sampler' = IF mario_obj THEN r.sampler ELSE sampler
       /\ produced' = IF mario_obj THEN r.produced ELSE produced
       /\ UNCHANGED <<platform, threads, keyboard_control, input_value, modal,
                      g_queue, g_running, g_shouldStop, win_thread, proc>>

TickSampling(views, looks, max_ticks) ==
    TickSamplingWith(views, looks, {NoGeometry}, max_ticks)

InitPlay ==
    /\ InitCommon
    /\ platform = "Linux"
    /\ surfaces = <<>>

\* a machine without a gamepad: get_gamepad raises in every worker
InsertNoDevice == InsertSpawning({"valid"}, {0}, {DefaultScale}, {<<0, 0, 0>>})
TickNoDevice == TickSampling({TRUE}, { Forward }, MaxTicks)

NextNoDevice ==
    \/ InsertNoDevice
    \/ TickNoDevice
    \/ DeleteMarioObject
    \/ ControlInvoke
    \/ ControlModal
    \/ ThreadLoopTest
    \/ ThreadReadRaises

SpecNoDevice == InitPlay /\ [][NextNoDevice]_vars

\* ---- a machine with a gamepad whose right stick is in use
PlayBatches ==
    { << Ev("ABS_RX", AxisMax), Ev("ABS_RY", -AxisRange), Ev("BTN_SOUTH", 1) >>,
      << Ev("ABS_RX", 0), Ev("BTN_SOUTH", 0) >> }
\* view directions that differ from every step a sample can write
PlayLooks == { <<6, -4>>, Forward }
PlayFills == { [used |-> 1, frame |-> 1] }

PlayAppend ==
    /\ Len(events) < MaxQueue
    /\ sampler.pc = "idle"
    /\ \E t \in { u \in ThreadIds : threads[u] = "read" }, batch \in PlayBatches :
          CommitReader(thread_append(ReaderState, t, batch), "worker")

InsertPlay == InsertSpawning({"valid"}, {0}, {DefaultScale}, {<<0, 0, 0>>})
TickPlay == TickSamplingWith(BOOLEAN, PlayLooks, PlayFills, MaxTicks)

NextPlay ==
    \/ InsertPlay
    \/ TickPlay
    \/ ThreadLoopTest
    \/ PlayAppend

SpecPlay == InitPlay /\ [][NextPlay]_vars

(***************************************************************************)
(* The evdev sample statement by statement: input_reader.py lines 43-84,   *)
(* with the workers running between the loop test, the for statement and   *)
(* pop(0).  list.append, len, indexing and list.pop are atomic.            *)
(***************************************************************************)
MaxBatches == 3     \* most batches the device delivers

\* sample_input_reader up to the loop: lines 33-36; sampler.line is the list
\* the for statement iterated last
sample_enter_linux(r) ==
    LET b == sample_begin_linux(r)
    IN [b EXCEPT !.sampler.line = r.sampler.line,
                 !.sampler.pc = IF @ = "loop" THEN "len" ELSE @]

\* while len(events) > 0: line 43
sample_len_linux(r) ==
    IF Len(r.events) > 0 THEN [r EXCEPT !.sampler.pc = "index"]
    ELSE sample_return(r, FALSE)

\* for event in events[0]: lines 44-82; events[0] on an empty list raises
sample_index_linux(r) ==
    IF r.events = <<>> THEN sample_return(r, TRUE)
    ELSE [r EXCEPT !.sampler.line = Head(r.events),
                   !.mario_inputs = process_batch(@, Head(r.events)),
                   !.sampler.pc = "pop"]

\* a sample removing the newest batch: events.pop()
sample_pop_last_linux(r) ==
    IF r.events = <<>> THEN sample_return(r, TRUE)
    ELSE [r EXCEPT !.events = SubSeq(@, 1, Len(@) - 1), !.sampler.pc = "len"]
\* events.pop(0): line 83
sample_pop_linux(r) ==
    IF r.events = <<>> THEN sample_return(r, TRUE)
    ELSE [r EXCEPT !.events = Tail(@), !.sampler.pc = "len"]

\* the device's reports are numbered in their SYN_REPORT event, so that one
\* batch can be told from the next
Serial(batch) == IF batch = <<>> THEN 0 ELSE batch[Len(batch)].state
Appended ==
    IF events # <<>> THEN Serial(events[Len(events)])
    ELSE Serial(sampler.line) - (IF sampler.pc = "pop" THEN 1 ELSE 0)
Reports(n) ==
    { << Ev("ABS_X", AxisMax), Ev("BTN_SOUTH", 1), Ev("SYN_REPORT", n) >>,
      << Ev("BTN_SOUTH", 0), Ev("ABS_X", 0), Ev("ABS_X", -AxisRange),
         Ev("ABS_Y", AxisMax), Ev("SYN_REPORT", n) >> }

DrainAppend ==
    /\ Appended < MaxBatches
    /\ \E t \in { u \in ThreadIds : threads[u] = "read" }, batch \in Reports(Appended + 1) :
          CommitReader(thread_append(ReaderState, t, batch), "worker")

DrainEnter ==
    /\ sampler.pc = "idle"
    /\ ReaderStarted
    /\ CommitReader(sample_enter_linux(ReaderState), "sample_input_reader")
DrainLen ==
    /\ sampler.pc = "len"
    /\ CommitReader(sample_len_linux(ReaderState), "sample_input_reader")
DrainIndex ==
    /\ sampler.pc = "index"
    /\ CommitReader(sample_index_linux(ReaderState), "sample_input_reader")
DrainPop ==
    /\ sampler.pc = "pop"
    /\ CommitReader(sample_pop_linux(ReaderState), "sample_input_reader")

NextDrain ==
    \/ StartInputReader
    \/ StopInputReader
    \/ ControlInvoke
    \/ ThreadLoopTest
    \/ DrainAppend
    \/ DrainEnter
    \/ DrainLen
    \/ DrainIndex
    \/ DrainPop

SpecDrain == InitAxis /\ [][NextDrain]_vars

(***************************************************************************)
(* Properties                                                              *)
(***************************************************************************)
CallIdx == 1..Len(calls)
Called(fn) == \E i \in CallIdx : calls[i].fn = fn
SpawnWasRejected == \E i \in CallIdx : calls[i].fn = "sm64_mario_create" /\ calls[i].ret < 0

\* C1: the native calls respect the session state machine: every
\* sm64_static_surfaces_load is made on a library whose sm64_global_init has
\* completed, and every sm64_mario_create on one whose sm64_global_init and
\* sm64_static_surfaces_load have both completed since the last terminate.
\* The handler-based revision keeps this; SM64Mario.__init__ of the timer-based
\* revision does not.
C1_CallsFollowStateMachine ==
    \A i \in CallIdx :
        /\ calls[i].fn = "sm64_static_surfaces_load" => calls[i].init
        /\ calls[i].fn = "sm64_mario_create" => calls[i].init /\ calls[i].surfaces

\* C2: every insert whose sm64_mario_create returned a negative id ends with a
\* non-empty error message that the operator reports as an ERROR.
C2_NegativeIdIsReported ==
    SpawnWasRejected => op.err # "None" /\ op.report = "ERROR"

\* C3: after an insert rejected at spawn the session is torn down:
\* sm64_global_terminate was called exactly once after that attempt's
\* sm64_global_init (as the attempt's last native call), the library handle is
\* None, no tick handler is registered, no 'LibSM64 Mario' object exists and
\* the input reader is not started.
TerminatesAfterInit ==
    Cardinality({ i \in CallIdx :
        /\ calls[i].fn = "sm64_global_terminate"
        /\ \E k \in 1..(i - 1) : calls[k].fn = "sm64_global_init" })
C3_RejectedSpawnTornDown ==
    (op.name = "insert" /\ SpawnWasRejected) =>
        /\ TerminatesAfterInit = 1
        /\ calls[Len(calls)].fn = "sm64_global_terminate"
        /\ ~native.init
        /\ sm64 = "None"
        /\ handlers = 0
        /\ ~mario_obj
        /\ ~thread_running
\* a rejected spawn of a re-insert over a live session
C3_Witness ==
    /\ op.name = "insert"
    /\ SpawnWasRejected
    /\ calls[1].fn = "sm64_global_terminate"
    /\ calls[1].marios # {}

\* C4: sm64_mario_tick is only called with a loaded handle, on a library whose
\* global init has completed, with a non-negative id that the latest
\* sm64_mario_create returned; and a tick handler is registered only then.
C4_TickOnlyWhenSpawned ==
    /\ \A i \in CallIdx : calls[i].fn = "sm64_mario_tick" =>
          /\ calls[i].args[1] = "lib"
          /\ calls[i].init /\ calls[i].surfaces
          /\ calls[i].args[2] >= 0
          /\ calls[i].marios = { calls[i].args[2] }
    /\ handlers > 0 =>
          /\ sm64 = "lib"
          /\ native.init /\ native.surfaces
          /\ sm64_mario_id >= 0
          /\ native.marios = { sm64_mario_id }
\* the second native tick of a session whose sm64_mario_create returned id 1
C4_Witness ==
    /\ op.name = "tick"
    /\ Called("sm64_mario_tick")
    /\ sm64_mario_id = 1
    /\ tick_count = 2

\* C5: a triangle with any axis of any vertex out of the signed 16-bit range
\* (clamp_bounds reports it) is not in the surface array.
AnyAxisOut(c) ==
    \/ ~c.v0x[2] \/ ~c.v0y[2] \/ ~c.v0z[2]
    \/ ~c.v1x[2] \/ ~c.v1y[2] \/ ~c.v1z[2]
    \/ ~c.v2x[2] \/ ~c.v2y[2] \/ ~c.v2z[2]
Clamped(i) == ClampTriangle(surfaces[i], SM64_SCALE_FACTOR, origin_offset)
C5_AnyAxisOutExcluded ==
    op.name = "extract" =>
        \A i \in 1..Len(surfaces) :
            AnyAxisOut(Clamped(i)) =>
                \A k \in 1..surface_array_len :
                    surface_array[k] # MakeSurface(surfaces[i], Clamped(i))

\* C6: the surface array is dense and order-preserving: the count is the
\* number of input triangles minus the number the loop excluded, and entry k
\* is the surface made from the k-th triangle that was not excluded.
KeptIdx == { i \in 1..Len(surfaces) : ~SkipTriangle(Clamped(i)) }
ExcludedIdx == { i \in 1..Len(surfaces) : SkipTriangle(Clamped(i)) }
KthKept(k) == CHOOSE i \in KeptIdx : Cardinality({ m \in KeptIdx : m <= i }) = k
C6_DenseOrderPreserving ==
    op.name = "extract" =>
        /\ surface_array_len = Len(surfaces) - Cardinality(ExcludedIdx)
        /\ Len(surface_array) = Len(surfaces)
        /\ \A k \in 1..surface_array_len :
              surface_array[k] = MakeSurface(surfaces[KthKept(k)], Clamped(KthKept(k)))
\* an excluded triangle followed by kept ones
C6_Witness ==
    /\ op.name = "extract"
    /\ Len(surfaces) = 3
    /\ 1 \in ExcludedIdx
    /\ KeptIdx = {2, 3}
    /\ surface_array_len = 2

\* C7: no error raised during a tick escapes tick_mario.
C7_NoErrorEscapesTick ==
    op.name = "tick" => ~op.raised

\* C8: an insert with a 0-byte ROM file fails with an error and calls none of
\* sm64_global_init, sm64_static_surfaces_load, sm64_mario_create.
C8_EmptyRomNoNativeCall ==
    (op.name = "insert" /\ op.rom = "empty") =>
        /\ op.report = "ERROR"
        /\ ~Called("sm64_global_init")
        /\ ~Called("sm64_static_surfaces_load")
        /\ ~Called("sm64_mario_create")

\* C9: an insert with a missing or unreadable ROM is aborted before the
\* library is loaded or any native function is called, is reported as an
\* operator error, and leaves the handle None and no tick handler registered.
C9_MissingRomAbortsBeforeLoad ==
    (op.name = "insert" /\ op.rom = "missing") =>
        /\ ~Called("LoadLibrary")
        /\ ~Called("sm64_global_init")
        /\ ~Called("sm64_static_surfaces_load")
        /\ ~Called("sm64_mario_create")
        /\ op.report = "ERROR"
        /\ sm64 = "None"
        /\ handlers = 0

\* C10: a failed insert can be retried cleanly: no insert calls
\* sm64_global_terminate or sm64_mario_create on a library whose
\* sm64_global_init has not completed.
C10_RetryNeverTouchesUninitialised ==
    \A i \in CallIdx :
        calls[i].fn \in {"sm64_global_terminate", "sm64_mario_create"} => calls[i].init

\* C11: over any sequence of inserts, ticks and removals the calls of
\* sm64_global_init and sm64_global_terminate strictly alternate, starting
\* with an init: every sm64_global_init finds the library without a completed
\* global init (none yet, or the last one terminated), and every
\* sm64_global_terminate finds a completed global init to end.
C11_InitTerminateAlternate ==
    \A i \in CallIdx :
        /\ calls[i].fn = "sm64_global_init" => ~calls[i].init
        /\ calls[i].fn = "sm64_global_terminate" => calls[i].init

\* C12: when stop_tick_mario ends a session that holds a spawned entity, the
\* native entity-delete call (sm64_mario_delete) is made before
\* sm64_global_terminate; afterwards the handle is None, sm64_mario_id is -1
\* and no tick handler is registered.
C12_EntityDeletedBeforeTerminate ==
    \A i \in CallIdx :
        (calls[i].fn = "sm64_global_terminate" /\ calls[i].marios # {}) =>
            /\ \E k \in 1..(i - 1) : calls[k].fn = "sm64_mario_delete"
            /\ op.name = "tick" => sm64 = "None" /\ sm64_mario_id = -1 /\ handlers = 0

\* C13: a tick that finds the 'LibSM64 Mario' object gone destroys the session
\* and, in that frame, makes no sm64_mario_tick call, takes no input sample
\* and writes no mesh; no tick runs afterwards until an insert has succeeded
\* (only a successful insert registers a tick handler again).
C13_RemovalFrame ==
    (handlers > 0 /\ ~mario_obj /\ op'.name = "tick") =>
        /\ Len(calls') = 1
        /\ calls'[1].fn = "sm64_global_terminate"
        /\ mario_inputs' = mario_inputs
        /\ last_decode' = "none"
        /\ tick_count' = tick_count
        /\ mesh_exists' = mesh_exists
        /\ handlers' = 0
        /\ sm64' = "None"
        /\ sm64_mario_id' = -1
C13_NoTickUntilInsert ==
    /\ (handlers = 0 /\ op'.name = "tick") => UNCHANGED vars
    /\ (handlers = 0 /\ handlers' > 0) =>
          /\ op'.name = "insert"
          /\ op'.err = "None" /\ ~op'.raised
          /\ sm64_mario_id' >= 0
C13_RemovedObjectStopsTicking ==
    [][C13_RemovalFrame /\ C13_NoTickUntilInsert]_vars
\* the frame after the object of a session that held sampled inputs was removed
C13_Witness ==
    /\ op.name = "tick"
    /\ Called("sm64_global_terminate")
    /\ handlers = 0
    /\ mario_inputs.buttonA
    /\ tick_count > 0

\* C14: after each successful spawn exactly the first 15 ticks that reach the
\* mesh update use the full decode and every later one the fast decode: the
\* counter is 0 after every successful insert (a re-insert included), only a
\* tick that updates the mesh advances it, by one, and that tick decodes in
\* full exactly when fewer than 15 ticks of the session came before it.
C14_SpawnStep ==
    (op'.name = "insert" /\ handlers' > 0 /\ vars' # vars) => tick_count' = 0
C14_TickStep ==
    (op'.name = "tick" /\ last_decode' # "none" /\ vars' # vars) =>
        /\ tick_count' = tick_count + 1
        /\ last_decode' = "full" <=> tick_count' <= 15
        /\ last_decode' = "fast" <=> tick_count' >= 16
C14_OtherStep ==
    (tick_count' # tick_count) =>
        \/ op'.name = "tick" /\ last_decode' # "none"
        \/ op'.name = "insert" /\ handlers' > 0
C14_FullDecodeForFifteenTicks ==
    [][C14_SpawnStep /\ C14_TickStep /\ C14_OtherStep]_vars
\* the 16th tick of a session has run and used the fast decode
C14_Witness ==
    /\ op.name = "tick"
    /\ tick_count = 16
    /\ last_decode = "fast"

\* C15: at most one input-reader worker is alive at any time, whatever the
\* interleaving of start_input_reader, stop_input_reader and the workers'
\* blocking reads: no second evdev thread is started while an earlier one is
\* alive, and a controller.exe thread is only started when none is running.
C15_SingleWorker ==
    /\ Cardinality(AliveThreads) <= 1
    /\ ~g_running => win_thread \in {"none", "done"}

\* C16: after stop_input_reader, as long as no start follows, a worker does
\* not stay in its loop: from the loop test (where it stands once its blocking
\* read has returned) it goes on to exit, and until then it is either on its
\* way out or waiting in a blocking read; the controller.exe thread has the
\* child process killed (or finds it gone) before it exits.
EnqueueAlive == win_thread \in {"popen", "mkqueue", "test", "poll", "read",
                                "setstop", "close", "setrun"}
C16_StoppedWorkerExits ==
    /\ \A t \in ThreadIds :
          (threads[t] = "test" /\ ~thread_running)
             ~> (t \notin AliveThreads \/ thread_running)
    /\ (win_thread = "test" /\ g_shouldStop)
          ~> (win_thread = "done" \/ ~g_shouldStop)
    /\ (EnqueueAlive /\ g_shouldStop)
          ~> (win_thread \in {"done", "read"} \/ ~g_shouldStop)
    /\ [](win_thread \in {"setrun", "done"} => proc \in {"killed", "exited"})
\* both evdev threads, or the controller.exe thread with its child killed,
\* have exited on a stop
C16_Witness ==
    \/ /\ ~thread_running
       /\ \A t \in ThreadIds : threads[t] = "exited"
    \/ /\ g_shouldStop
       /\ win_thread = "done"
       /\ proc = "killed"
       /\ op.name = "worker"

\* C17: stop_input_reader is idempotent: called on a reader that is stopped
\* already, or that was never started, it does not raise and leaves the whole
\* reader state (running and stop flags, queues, threads) as it was.
readerCore == <<thread_running, events, threads, g_queue, g_running,
                g_shouldStop, win_thread, proc>>
ReaderNotRunning ==
    IF platform = "Windows" THEN ~g_running \/ g_shouldStop
    ELSE ~thread_running
C17_StopOnStoppedChangesNothing ==
    [][(op'.name = "stop_input_reader" /\ ReaderNotRunning) =>
          /\ UNCHANGED readerCore
          /\ ~op'.raised]_vars

\* C17 as the code has it: stop_input_reader never raises and only ever
\* writes the one flag it is about (thread_running, g_shouldStop); called
\* when a stop has been asked for already (thread_running False, g_shouldStop
\* True) it changes nothing, so a second stop repeats the first.  A first
\* stop of the controller.exe backend before any start does turn g_shouldStop
\* from False to True.
StopAskedFor ==
    IF platform = "Windows" THEN g_shouldStop ELSE ~thread_running
C17_SecondStopChangesNothing ==
    [][op'.name = "stop_input_reader" =>
          /\ ~op'.raised
          /\ UNCHANGED <<events, threads, g_queue, g_running, win_thread, proc>>
          /\ platform = "Windows" => UNCHANGED thread_running
          /\ platform = "Linux" => UNCHANGED g_shouldStop
          /\ StopAskedFor => UNCHANGED readerCore
          /\ StopAskedFor']_vars
\* a stop called after the controller.exe thread has exited on an earlier stop
C17_Witness ==
    /\ op.name = "stop_input_reader"
    /\ win_thread = "done"
    /\ ~g_running
    /\ g_shouldStop

\* C18: on every backend, a sample for which no worker has queued anything
\* since the sample before returns with stickX, stickY, buttonA, buttonB and
\* buttonZ as it found them (held, not reset).  The keyboard mode of the evdev
\* backend, which reads the key map and not the queue, is left aside.
SampleReturned ==
    /\ op.name = "sample_input_reader"
    /\ sampler.pc = "idle"
    /\ ~sampler.raised
SticksAndButtons(inputs) ==
    <<inputs.stickX, inputs.stickY, inputs.buttonA, inputs.buttonB, inputs.buttonZ>>
C18_QuietSampleHolds ==
    (/\ SampleReturned
     /\ sampler.quiet
     /\ platform = "Linux" => ~keyboard_control) =>
        SticksAndButtons(mario_inputs) = SticksAndButtons(sampler.held)

\* C19: sample_input_reader never waits for input, whatever the worker is
\* doing: it is never inside a call that cannot return before a worker
\* queues something (Queue.get() on an empty queue).
C19_SampleNeverWaits ==
    ~(sampler.pc = "get" /\ g_queue.items = <<>>)

\* C20: when a sample_input_reader call returns, every item that was in the
\* raw queue when the call began has been removed from it, in gamepad mode and
\* in keyboard mode alike.
C20_SampleDrainsQueue ==
    (op.name = "sample_input_reader" /\ sampler.pc = "idle") => sampler.pending = 0


\* C21: on a machine without a gamepad the insert succeeds, ticking goes on,
\* and every native tick that reads the gamepad queue (keyboard control is
\* off) is handed a centred stick and released buttons
C21_NoDeviceNeutral ==
    /\ op.name = "insert" => op.err = "None" /\ handlers > 0
    /\ (op.name = "tick" /\ Called("sm64_mario_tick") /\ ~keyboard_control)
          => SticksAndButtons(mario_inputs) = SticksAndButtons(NeutralInputs)


\* C22: a tick's decode, full or fast, leaves every vertex position, UV and
\* colour of index 3 * numTrianglesUsed or above as it was
C22_DecoderStaysBelowCount ==
    [][op'.name = "tick" =>
          \A v \in VertIdx :
             v >= 3 * mario_geo'.numTrianglesUsed =>
                /\ mesh'.co[v] = mesh.co[v]
                /\ mesh'.uv[v] = mesh.uv[v]
                /\ mesh'.color[v] = mesh.color[v]]_vars
\* a tick has decoded fewer triangles than the mesh holds, in either mode,
\* over a mesh whose other triangles differ from what the buffers hold
C22_Stale(v) ==
    \/ mesh.co[v] # vertex_co(mario_geo, v)
    \/ mesh.uv[v] # loop_uv(mario_geo, v)
    \/ mesh.color[v] # loop_color(mario_geo, v)
C22_Witness ==
    /\ op.name = "tick"
    /\ last_decode = "fast"
    /\ mario_geo.numTrianglesUsed > 0
    /\ \E v \in VertIdx : v >= 3 * mario_geo.numTrianglesUsed /\ C22_Stale(v)

\* C24: a tick that decodes in fast mode leaves every UV coordinate and every
\* vertex colour of the mesh as it was
C24_FastKeepsUvAndColour ==
    [][(op'.name = "tick" /\ Called("sm64_mario_tick")' /\ last_decode' = "fast")
          => /\ mesh'.uv = mesh.uv
             /\ mesh'.color = mesh.color]_vars
\* a fast decode has moved vertices whose UVs or colours in the buffers differ
\* from those of the mesh
C24_Witness ==
    /\ op.name = "tick"
    /\ Called("sm64_mario_tick")
    /\ last_decode = "fast"
    /\ \E v \in VertIdx :
          /\ v < 3 * mario_geo.numTrianglesUsed
          /\ mesh.co[v] = vertex_co(mario_geo, v)
          /\ mesh.uv[v] # loop_uv(mario_geo, v)
          /\ mesh.color[v] # loop_color(mario_geo, v)

\* the vertices of the first emitted surface as the decoder would read them
\* from position_data, and the decoder's host point for each of them
EmittedAsGeo ==
    LET e == surface_array[1]
        flat == << e.v0x, e.v0y, e.v0z, e.v1x, e.v1y, e.v1z, e.v2x, e.v2y, e.v2z >>
    IN [EmptyGeo EXCEPT !.position_data = [j \in 0..8 |-> flat[j + 1]]]
HostVertex(v) ==
    LET s == surfaces[1]
    IN IF v = 0 THEN << s.v0x, s.v0y, s.v0z >>
       ELSE IF v = 1 THEN << s.v1x, s.v1y, s.v1z >> ELSE << s.v2x, s.v2y, s.v2z >>
\* <<x, y, z>> of host vertex v: the engine value of that host axis is in range
InRange(v) ==
    LET c == ClampTriangle(surfaces[1], SM64_SCALE_FACTOR, origin_offset)
    IN IF v = 0 THEN << c.v0x[2], c.v0z[2], c.v0y[2] >>
       ELSE IF v = 1 THEN << c.v1x[2], c.v1z[2], c.v1y[2] >>
       ELSE << c.v2x[2], c.v2z[2], c.v2y[2] >>
Abs(x) == IF x < 0 THEN -x ELSE x
Extracted == op.name = "extract" /\ surface_array_len = 1

\* C25: decoding the extractor's encoding of a host point gives a point within
\* 1/S of it on every axis whose engine value is in range (coordinates are
\* numerators over HostDen * S, so 1/S is HostDen)
C25_RoundTripWithinOneOverScale ==
    Extracted =>
       \A v \in 0..2, axis \in 1..3 :
          InRange(v)[axis] =>
             Abs(vertex_co(EmittedAsGeo, v)[axis]
                   - HostVertex(v)[axis] * SM64_SCALE_FACTOR) <= HostDen
\* a point off the origin and off the engine grid has made the round trip
C25_Witness ==
    /\ Extracted
    /\ origin_offset # <<0, 0, 0>>
    /\ \A axis \in 1..3 :
          /\ InRange(0)[axis]
          /\ vertex_co(EmittedAsGeo, 0)[axis] # HostVertex(0)[axis] * SM64_SCALE_FACTOR

\* the engine coordinates emitted for vertex v, the scaled values they stand
\* for (numerators over HostDen) and whether each was in range
EngineVertex(v) ==
    LET e == surface_array[1]
    IN IF v = 0 THEN << e.v0x, e.v0y, e.v0z >>
       ELSE IF v = 1 THEN << e.v1x, e.v1y, e.v1z >> ELSE << e.v2x, e.v2y, e.v2z >>
ScaledVertex(v) ==
    LET h == HostVertex(v)
    IN << SM64_SCALE_FACTOR * (h[1] - origin_offset[1]),
          SM64_SCALE_FACTOR * (h[3] - origin_offset[3]),
          SM64_SCALE_FACTOR * (-h[2] + origin_offset[2]) >>
EngineInRange(v) == << InRange(v)[1], InRange(v)[3], InRange(v)[2] >>

\* C26: engine X comes from host X, engine Y from host Z, engine Z from negated
\* host Y, each relative to the origin, and the emitted integer is the nearest
\* integer to the scaled value whenever that value is in range
C26_NearestInteger ==
    Extracted =>
       \A v \in 0..2, axis \in 1..3 :
          EngineInRange(v)[axis] =>
             2 * Abs(EngineVertex(v)[axis] * HostDen - ScaledVertex(v)[axis]) <= HostDen

\* C27: the entity is created at the engine image of the spawn point raised by
\* the offset of 100; insert_mario spawns at its origin, the cursor, whose
\* image is (0, 0, 0), so it calls sm64_mario_create(0, 100, 0)
C27_SpawnRaisedByOffset ==
    op.name = "insert" =>
       \A i \in CallIdx :
          calls[i].fn = "sm64_mario_create" => calls[i].args = << 0, SpawnYOffset, 0 >>

\* the law of the claim for a raw value v * 32768, as a numerator over AxisDen:
\* 0 up to magnitude 0.2, else (|v| - 0.2) / 0.8 with the sign of v
AxisLaw(raw) ==
    IF 5 * Abs(raw) <= AxisRange THEN 0
    ELSE (IF raw < 0 THEN -1 ELSE 1) * (5 * Abs(raw) - AxisRange)
\* the sample is about to process a stick event of the 16-bit range that
\* stands at the head of the queue
HeadRaw == Head(events)[1].state
AxisEventAtHead ==
    /\ sampler.pc = "loop"
    /\ events # <<>>
    /\ HeadRaw >= -AxisRange
    /\ HeadRaw <= AxisMax

\* C28: for every raw value of the 16-bit range the stick value the sample
\* stores follows the dead-zone law, and magnitude 1 gives magnitude 1
C28_DeadZoneLaw ==
    [][(AxisEventAtHead /\ op'.name = "sample_input_reader") =>
          /\ mario_inputs'.stickX = AxisLaw(HeadRaw)
          /\ Abs(HeadRaw) = AxisRange => Abs(mario_inputs'.stickX) = AxisDen]_vars
\* the full negative deflection has been sampled
C28_Witness ==
    /\ SampleReturned
    /\ events = <<>>
    /\ mario_inputs.stickX = -AxisDen

\* C29: the stick values a sample leaves for the native tick lie in [-1, 1],
\* whatever raw values the device has delivered
C29_StickWithinUnit ==
    SampleReturned =>
       /\ Abs(mario_inputs.stickX) <= AxisDen
       /\ Abs(mario_inputs.stickY) <= AxisDen

\* the mesh object of the scene and the surface type the claim gives the
\* triangle of material index i
SceneMesh == scene[Len(scene)]
AnnotatedType(materials, i) ==
    IF i < Len(materials) /\ materials[i + 1] # "absent"
    THEN COLLISION_TYPES[materials[i + 1]]
    ELSE SURFACE_DEFAULT

\* C30: a triangle whose material slot carries a collision-type annotation
\* gets that type, slot 0 included; any other triangle gets SURFACE_DEFAULT
C30_AnnotatedSlotGivesType ==
    op.name = "get_all_surfaces" =>
       \A k \in 1..Len(SceneMesh.loop_triangles) :
          surfaces[k].surftype =
             AnnotatedType(SceneMesh.materials, SceneMesh.loop_triangles[k].material_index)

\* the positions of the owner's chain (1 is the owner itself, then its
\* parents in order) that are flagged Area Root and carry a terrain
AnnotatedAreaRoot(n) == n.sm64_obj_type = "Area Root" /\ n.terrainEnum # "absent"
TerrainSources == { i \in 1..Len(SceneMesh.chain) : AnnotatedAreaRoot(SceneMesh.chain[i]) }
NearestSource == CHOOSE i \in TerrainSources : \A j \in TerrainSources : i <= j

\* C31: every triangle gets the terrain of the nearest object on its owner's
\* chain, the owner included, that is flagged Area Root and has a terrain
\* annotation, and TERRAIN_GRASS when the chain ends without one
C31_NearestAreaRootTerrain ==
    op.name = "get_all_surfaces" =>
       /\ Len(surfaces) = Len(SceneMesh.loop_triangles)
       /\ \A k \in 1..Len(surfaces) :
             surfaces[k].terrain =
                IF TerrainSources = {} THEN TERRAIN_GRASS
                ELSE COLLISION_TYPES[SceneMesh.chain[NearestSource].terrainEnum]

\* an unflagged owner with a terrain, below two flagged ancestors with
\* different terrains: the nearer one is taken
C31_Witness ==
    /\ op.name = "get_all_surfaces"
    /\ Len(SceneMesh.chain) = 3
    /\ SceneMesh.chain[1].terrainEnum = "TERRAIN_STONE"
    /\ SceneMesh.chain[1].sm64_obj_type = "None"
    /\ TerrainSources = {2, 3}
    /\ surfaces[1].terrain = TERRAIN_GRASS

\* the inputs the last sm64_mario_tick call was handed
SeenByTick == calls[Len(calls)].args[3]

\* C32: a tick that reaches the native call samples first, then writes the
\* view direction, then calls sm64_mario_tick, then decodes: the call sees
\* camLookX = look_dir.x and camLookZ = -look_dir.y whatever the sample wrote
\* there, with the sticks and buttons of this tick's sample, the event list
\* is drained by then, and the mesh holds the geometry that call wrote
C32_TickOrder ==
    [][(op'.name = "tick" /\ Called("sm64_mario_tick")') =>
          /\ SeenByTick'.camLookX = look_dir'[1]
          /\ SeenByTick'.camLookZ = -look_dir'[2]
          /\ SticksAndButtons(SeenByTick') =
                SticksAndButtons(sample_whole_linux(ReaderState).mario_inputs)
          /\ keyboard_control \/ events' = <<>>
          /\ mario_inputs' = SeenByTick'
          /\ \A v \in VertIdx :
                v < 3 * mario_geo'.numTrianglesUsed =>
                   mesh'.co[v] = vertex_co(mario_geo', v)]_vars

\* a tick whose sample processed a batch with pan and zoom events (the A
\* button came with it) and whose view looks along (6, -4)
C32_Witness ==
    /\ op.name = "tick"
    /\ Called("sm64_mario_tick")
    /\ ~sampler.quiet
    /\ ~sampler.held.buttonA
    /\ mario_inputs.buttonA
    /\ look_dir = <<6, -4>>
    /\ mario_inputs.camLookX = 6
    /\ mario_inputs.camLookZ = 4
    /\ mario_geo.numTrianglesUsed = 1

\* what a worker thread leaves alone: the session, the native library and its
\* call record, the inputs struct and the keyboard state
WorkerLeavesAlone ==
    /\ UNCHANGED hostVars
    /\ mario_inputs' = mario_inputs
    /\ UNCHANGED <<keyboard_control, input_value, modal>>
EventsAppended ==
    \/ events' = events
    \/ Len(events') = Len(events) + 1 /\ SubSeq(events', 1, Len(events)) = events
QueueAppended ==
    \/ g_queue' = g_queue
    \/ /\ g_queue.bound /\ g_queue'.bound
       /\ Len(g_queue'.items) = Len(g_queue.items) + 1
       /\ SubSeq(g_queue'.items, 1, Len(g_queue.items)) = g_queue.items
\* g_queue = Queue(), input_reader_win.py line 13
QueueCreated == win_thread = "mkqueue" /\ g_queue' = [bound |-> TRUE, items |-> <<>>]

TornDownBeforeInit(cs) ==
    \A i \in 1..Len(cs) :
       cs[i].fn = "sm64_global_init" =>
          \E j \in 1..(i - 1) : cs[j].fn = "sm64_global_terminate"

\* C34: at most one session at any time, in either revision: at most one tick
\* callback (frame handler or timer) is registered and at most one entity is
\* live in the library; an Insert of the timer-based revision while a Mario
\* exists changes nothing; a re-insert of the handler-based revision over a
\* registered handler clears it and terminates the library before it
\* initialises it again, so the handler it registers is the only one
C34_OneSessionStep ==
    /\ handlers' + timers' <= 1
    /\ Cardinality(native'.marios) <= 1
    /\ (op'.name = "timer_insert" /\ mario.exists) =>
          /\ UNCHANGED <<mario, timers, workers, native, sm64, mesh_exists, mario_inputs>>
          /\ calls' = <<>>
          /\ UNCHANGED readerVars
    /\ (op'.name = "insert" /\ handlers > 0) =>
          /\ Called("sm64_global_terminate")'
          /\ TornDownBeforeInit(calls')
          /\ handlers' = 1 => (op'.err = "None" /\ ~op'.raised)
C34_AtMostOneSession == [][C34_OneSessionStep]_vars

\* an Insert pressed while the session of an earlier Insert is ticking
\* (handler-based revision), and one pressed while a Mario exists (timer-based)
C34_Witness ==
    /\ op.name = "insert"
    /\ handlers = 1
    /\ Called("sm64_global_terminate")
    /\ Called("sm64_mario_create")
C34_WitnessTimer ==
    /\ op.name = "timer_insert"
    /\ mario.exists
    /\ timers = 1
    /\ calls = <<>>

\* the events of a batch with the given code, and the state of the last one
WithCode(batch, code) == { i \in 1..Len(batch) : batch[i].code = code }
LatestState(batch, code) ==
    batch[CHOOSE i \in WithCode(batch, code) : \A j \in WithCode(batch, code) : j <= i].state
\* the batches of the list are numbered on from the one last iterated
NumberedFrom(base) == \A i \in 1..Len(events) : Serial(events[i]) = base + i

\* C35: the batches wait in append order behind the one processed last: a
\* worker's step leaves the list as it was or appends at its end; the for
\* statement always finds a first batch, which is the successor of the one
\* iterated before it (none is skipped or taken twice), and leaves in each
\* stick and button the state of the batch's latest event of that code;
\* pop(0) removes exactly the batch the for statement has just iterated; a
\* sample that reached the loop returns with the list empty, without raising
C35_StepsKeepOrder ==
    /\ op'.name = "worker" => EventsAppended
    /\ (sampler.pc = "index" /\ op'.name = "sample_input_reader") =>
          /\ events # <<>>
          /\ sampler'.pc = "pop"
          /\ Serial(Head(events)) = Serial(sampler.line) + 1
          /\ events' = events
          /\ \E batch \in { Head(events) } :
                /\ mario_inputs'.stickX =
                      IF WithCode(batch, "ABS_X") = {} THEN mario_inputs.stickX
                      ELSE read_axis(LatestState(batch, "ABS_X"))
                /\ mario_inputs'.stickY =
                      IF WithCode(batch, "ABS_Y") = {} THEN mario_inputs.stickY
                      ELSE read_axis(LatestState(batch, "ABS_Y"))
                /\ mario_inputs'.buttonA =
                      IF WithCode(batch, "BTN_SOUTH") = {} THEN mario_inputs.buttonA
                      ELSE LatestState(batch, "BTN_SOUTH") = 1
    /\ (sampler.pc = "pop" /\ op'.name = "sample_input_reader") =>
          /\ events # <<>>
          /\ Head(events) = sampler.line
          /\ events' = Tail(events)
    /\ (sampler.pc = "len" /\ sampler'.pc = "idle") =>
          /\ events = <<>>
          /\ ~sampler'.raised
    /\ events' # events =>
          \/ op'.name = "worker"
          \/ sampler.pc = "pop" /\ op'.name = "sample_input_reader"
C35_EveryBatchOnceInOrder ==
    /\ [][C35_StepsKeepOrder]_vars
    /\ [](NumberedFrom(Serial(sampler.line) - (IF sampler.pc = "pop" THEN 1 ELSE 0)))

\* the third batch is being iterated while two workers are alive, and its
\* events left the stick at the value of its latest ABS_X event
C35_Witness ==
    /\ sampler.pc = "pop"
    /\ Serial(sampler.line) = 3
    /\ Cardinality(AliveThreads) = 2
    /\ WithCode(sampler.line, "ABS_Y") # {}
    /\ mario_inputs.stickX = read_axis(-AxisRange)
    /\ mario_inputs.stickY = read_axis(AxisMax)

\* C36: in the subprocess backend the queue exists whenever a sample tests it:
\* no sample stands at line 42 while g_queue is still None, and none ends by
\* an error
C36_QueueExistsWhenSampled ==
    platform = "Windows" =>
       /\ sampler.pc = "test" => g_queue.bound
       /\ ~sampler.raised

\* the controller.exe thread is starting up or in its loop
EnqueueFeeding == win_thread \in {"popen", "mkqueue", "test", "poll", "read"}

\* C37: a start is never lost: when start_input_reader returns, a worker is
\* alive (evdev backend) or is starting up or in its loop with the stop flag
\* down (subprocess backend), whatever an earlier worker was doing
C37_StartNeverLost ==
    [][op'.name = "start_input_reader" =>
          IF platform = "Windows"
          THEN EnqueueFeeding' /\ ~g_shouldStop'
          ELSE thread_running' /\ AliveThreads' # {}]_vars

\* the same for the subprocess backend alone
C37_StartNeverLostWin ==
    [][(op'.name = "start_input_reader" /\ platform = "Windows") =>
          EnqueueFeeding' /\ ~g_shouldStop']_vars

\* the five fields a line of at least five integers gives
FromLine(line) ==
    << read_axis(line[1]), read_axis(line[2]), line[3] # 0, line[4] # 0, line[5] # 0 >>

\* C38: a sample of the subprocess backend takes the lines oldest first, one
\* per turn of its loop, and leaves the loop only on an empty queue; on its
\* return the sticks and buttons are those of the line taken last if that
\* line has at least 5 integers, and zero and false if no line was taken or
\* the last one is shorter
C38_LastLineApplied ==
    [][platform = "Windows" =>
          /\ (sampler.pc = "get" /\ op'.name = "sample_input_reader") =>
                /\ sampler'.has_line
                /\ sampler'.line = Head(g_queue.items)
                /\ g_queue'.items = Tail(g_queue.items)
                /\ mario_inputs' = mario_inputs
          /\ (sampler.pc = "test" /\ sampler'.pc = "idle" /\ ~sampler'.raised) =>
                /\ g_queue.items = <<>> /\ g_queue'.items = <<>>
                /\ SticksAndButtons(mario_inputs') =
                      IF sampler.has_line /\ Len(sampler.line) >= 5
                      THEN FromLine(sampler.line)
                      ELSE SticksAndButtons(NeutralInputs)]_vars

\* a sample has returned after taking a line with the stick pushed and A down;
\* another found nothing and zeroed inputs that were set
C38_Witness ==
    /\ platform = "Windows"
    /\ op.name = "sample_input_reader"
    /\ sampler.pc = "idle"
    /\ ~sampler.raised
    /\ sampler.has_line
    /\ sampler.line = <<AxisMax, 0, 1, 0, 0>>
    /\ ~sampler.held.buttonA
    /\ mario_inputs.buttonA
    /\ mario_inputs.stickX = read_axis(AxisMax)
C38_WitnessEmpty ==
    /\ platform = "Windows"
    /\ op.name = "sample_input_reader"
    /\ sampler.pc = "idle"
    /\ ~sampler.raised
    /\ ~sampler.has_line
    /\ sampler.held.buttonA
    /\ ~mario_inputs.buttonA

\* C39: with no session active the scene runs at the frame rate it had before
\* the insert, whatever ended the session (object removal, the teardown of a
\* re-insert, a failed insert); while a tick handler is registered it runs
\* at 30
C39_FrameRateRestored ==
    /\ handlers = 0 => fps \in UserFpsValues
    /\ handlers > 0 => fps = TickFps

\* C40: the keyboard operator invoked while no 'LibSM64 Mario' object exists
\* reports an error and leaves config['keyboard_control'] as it was
C40_FailedInvokeKeepsMode ==
    [][(op'.name = "control_invoke" /\ ~mario_obj) =>
          /\ op'.report = "ERROR"
          /\ ~modal'
          /\ keyboard_control' = keyboard_control]_vars

====
